---- MODULE Spec2Model ----
(***************************************************************************)
(* Image gallery manager (src/script.js, third revision, lines 3985-7018): *)
(* the in-memory snapshot allImages, the IndexedDB object store "images",  *)
(* the selection, the filters, the confirm/rename dialogs and the          *)
(* asynchronous flows (FileReader loads, store transactions, reloads,      *)
(* archive import) that keep them in step.                                 *)
(*                                                                         *)
(* The object store is a sequence of records in key order (what getAll and *)
(* a cursor deliver).  Transactions on the one store run in the order they *)
(* were created: txq is that queue, and one Tx* action runs the head       *)
(* transaction to completion together with its completion callback.  The   *)
(* callbacks of a cursor scan read nothing but the cursor and constants    *)
(* captured at the call, so running a scan in one step loses no behaviour. *)
(*                                                                         *)
(* SANY reads ASCII only: the category labels '其他' and '全部' of the      *)
(* source are written "qita" and "quanbu" here.                            *)
(***************************************************************************)
EXTENDS Integers, Sequences, FiniteSets, TLC

VARIABLES
    store,              \* object store "images": records in key order
    nextId,             \* key generator of the store (autoIncrement)
    allImages,          \* let allImages
    selectedIds,        \* let selectedIds
    currentFilter,      \* let currentFilter
    currentTagFilters,  \* let currentTagFilters
    currentModeFilter,  \* let currentModeFilter
    confirmAction,      \* let confirmAction
    confirmParams,      \* let confirmParams
    deleteType,         \* let deleteType
    deleteName,         \* let deleteName
    confirmOpen,        \* #confirm-dialog is displayed
    renameType,         \* let renameType
    renameOldName,      \* let renameOldName
    renameOpen,         \* #rename-dialog is displayed
    waiters,            \* saves suspended in waitForImagesLoaded
    readers,            \* FileReader loads in flight
    txq,                \* store transactions created and not yet run
    imp,                \* the running handleZipFile, or Idle
    pendingTagUpdates,  \* window.pendingTagUpdates
    importOpen,         \* the import dialog (.import-dialog) is in the document
    copiedImages,       \* let copiedImages
    currentDetailId,    \* let currentDetailId
    detailCategory,     \* value of the select #detail-category
    detailTouched,      \* the user has changed that select since openDetail filled it
    exported,           \* the archive the last exportAsZip downloaded
    lastToast,          \* the latest showToast
    now                 \* what new Date() reads in this session

storeVars  == <<store, nextId>>
filterVars == <<currentFilter, currentTagFilters, currentModeFilter>>
confirmVars == <<confirmAction, confirmParams, deleteType, deleteName, confirmOpen>>
renameVars == <<renameType, renameOldName, renameOpen>>
asyncVars  == <<waiters, readers, txq>>
importVars == <<imp, pendingTagUpdates, importOpen>>
overlayVars == <<currentDetailId, detailCategory, detailTouched, exported>>
vars == <<store, nextId, allImages, selectedIds, currentFilter, currentTagFilters,
          currentModeFilter, confirmAction, confirmParams, deleteType, deleteName,
          confirmOpen, renameType, renameOldName, renameOpen, waiters, readers, txq,
          imp, pendingTagUpdates, importOpen, copiedImages, currentDetailId, detailCategory,
          detailTouched, exported, lastToast, now>>

-----------------------------------------------------------------------------
(* Bounds of the model *)

\* keys the store hands out: at most MaxId records are ever added
MaxId == 5
\* saves and transactions in flight at the same time
MaxPending == 2
\* tags the detail dialog lets one image carry
MaxTags == 3

-----------------------------------------------------------------------------
(* Values *)

Null == "<null>"            \* JavaScript null
CAT_ALL == "all"            \* 'all', the value of currentFilter for no filter
CAT_QUANBU == "quanbu"      \* '全部'
CAT_QITA == "qita"          \* '其他'
CAT_CESHI == "ceshi"        \* '测试', a category name that sorts after '其他'
EMPTY_PREFIX == "__EMPTY_IMAGE__"

Falsy(v) == v \in {"", Null}

\* currentDetailId when no detail dialog is open (null; the keys of the store
\* start at 1)
NoId == 0

\* confirmParams when nothing has been asked (null, as a record without a count)
NoParams == [count |-> 0]

Range(s) == {s[i] : i \in DOMAIN s}

\* s.startsWith(p)
StartsWith(s, p) == Len(s) >= Len(p) /\ SubSeq(s, 1, Len(p)) = p

\* s.endsWith(p)
EndsWith(s, p) == Len(s) >= Len(p) /\ SubSeq(s, Len(s) - Len(p) + 1, Len(s)) = p

\* positions of the character c in the string s
Positions(s, c) == {i \in 1..Len(s) : SubSeq(s, i, i) = c}

Max(S) == CHOOSE m \in S : \A k \in S : k <= m
Min(S) == CHOOSE m \in S : \A k \in S : m <= k

Ids(recs) == {recs[i].id : i \in DOMAIN recs}

-----------------------------------------------------------------------------
(* Strings *)

LowerChars == "abcdefghijklmnopqrstuvwxyz"
UpperChars == "ABCDEFGHIJKLMNOPQRSTUVWXYZ"

UpperChar(c) ==
    IF Positions(LowerChars, c) = {} THEN c
    ELSE LET i == Min(Positions(LowerChars, c)) IN SubSeq(UpperChars, i, i)

LowerChar(c) ==
    IF Positions(UpperChars, c) = {} THEN c
    ELSE LET i == Min(Positions(UpperChars, c)) IN SubSeq(LowerChars, i, i)

RECURSIVE toUpperCase(_)
toUpperCase(s) ==
    IF Len(s) = 0 THEN "" ELSE UpperChar(SubSeq(s, 1, 1)) \o toUpperCase(SubSeq(s, 2, Len(s)))

RECURSIVE toLowerCase(_)
toLowerCase(s) ==
    IF Len(s) = 0 THEN "" ELSE LowerChar(SubSeq(s, 1, 1)) \o toLowerCase(SubSeq(s, 2, Len(s)))

\* name.replace(/\.[^/.]+$/, ""): the last dot and what follows it are dropped
\* when at least one character follows and none of them is a slash
removeFileExtension(name) ==
    LET dots == Positions(name, ".") IN
    IF dots = {} THEN name
    ELSE LET d == Max(dots) IN
         IF d < Len(name) /\ \A i \in Positions(name, "/") : i < d
         THEN SubSeq(name, 1, d - 1)
         ELSE name

hasSuffix(name, suffix) ==
    EndsWith(toUpperCase(removeFileExtension(name)), toUpperCase(suffix))

\* s.split('.').pop(): what follows the last dot, or s when it has none
LastDotPart(s) ==
    IF Positions(s, ".") = {} THEN s ELSE SubSeq(s, Max(Positions(s, ".")) + 1, Len(s))

\* filename.split('/')[0] when the path has a slash, '' otherwise
EntryCategory(filename) ==
    IF Positions(filename, "/") = {} THEN ""
    ELSE SubSeq(filename, 1, Min(Positions(filename, "/")) - 1)

\* filename.split('/').slice(1).join('/') when the path has a slash, else the path
EntryFilename(filename) ==
    IF Positions(filename, "/") = {} THEN filename
    ELSE SubSeq(filename, Min(Positions(filename, "/")) + 1, Len(filename))

IMAGE_EXTENSIONS == {"jpg", "jpeg", "png", "gif", "bmp", "webp"}

-----------------------------------------------------------------------------
(* Records and views of a snapshot *)

\* a record as saveImage and saveImageWithCurrentTags build it (the store adds id)
ImageData(name, category, tags, data, date) ==
    [name |-> name, category |-> IF Falsy(category) THEN "" ELSE category,
     tags |-> tags, data |-> data, date |-> date, isEmptyCategory |-> FALSE]

\* the empty-category record addCategory builds
emptyCategoryRecord(name, date) ==
    [name |-> EMPTY_PREFIX \o name, category |-> name, tags |-> <<>>, data |-> "",
     date |-> date, isEmptyCategory |-> TRUE]

WithId(rec, id) == [f \in (DOMAIN rec) \cup {"id"} |-> IF f = "id" THEN id ELSE rec[f]]

Sentinels(recs) == SelectSeq(recs, LAMBDA r : r.isEmptyCategory)
RealRecords(recs) == SelectSeq(recs, LAMBDA r : ~r.isEmptyCategory)

\* allImages.some(img => img.name === fileName)
checkDuplicateImage(fileName) == \E i \in DOMAIN allImages : allImages[i].name = fileName

\* [...new Set(allImages.map(img => img.category).filter(cat => cat))]
existingCategories == {allImages[i].category : i \in DOMAIN allImages} \ {"", Null}

\* [...new Set(allImages.filter(img => img.tags).flatMap(img => img.tags))]
existingTags == UNION {Range(allImages[i].tags) : i \in DOMAIN allImages}

\* the entries of the sidebar category list that renderCategories builds from a snapshot
renderCategories(imgs) ==
    LET emptyCategoryRecords ==
            {imgs[i].category : i \in {j \in DOMAIN imgs :
                imgs[j].isEmptyCategory /\ StartsWith(imgs[j].name, EMPTY_PREFIX)}}
        realCategories ==
            {imgs[i].category : i \in {j \in DOMAIN imgs : ~imgs[j].isEmptyCategory}}
    IN ((emptyCategoryRecords \cup realCategories) \ {"", CAT_ALL, CAT_QUANBU})
           \cup {CAT_QITA}

\* the characters of the names of the model in the order of their UTF-16 code
CodeOrder == "./0123456789ABCDEFGHIJKLMNOPQRSTUVWXYZ_abcdefghijklmnopqrstuvwxyz"

\* the UTF-16 code units Array.prototype.sort compares for an entry: those of the
\* source's label for a label written in ASCII here, those of "null" for null, and
\* for any other name the ranks of its characters (all below the code units of the
\* labels)
CodeUnits(s) ==
    IF s = CAT_QITA THEN <<20854, 20182>>
    ELSE IF s = CAT_QUANBU THEN <<20840, 37096>>
    ELSE IF s = CAT_CESHI THEN <<27979, 35797>>
    ELSE LET str == IF s = Null THEN "null" ELSE s
         IN [i \in 1..Len(str) |-> Min(Positions(CodeOrder, SubSeq(str, i, i)))]

\* a < b in the order of sort() without a comparator
RECURSIVE CodeLess(_, _)
CodeLess(a, b) ==
    IF b = <<>> THEN FALSE
    ELSE IF a = <<>> THEN TRUE
    ELSE IF Head(a) # Head(b) THEN Head(a) < Head(b)
    ELSE CodeLess(Tail(a), Tail(b))

\* allCategories.sort()
RECURSIVE sort(_)
sort(S) ==
    IF S = {} THEN <<>>
    ELSE LET first == CHOOSE x \in S :
                          \A y \in S \ {x} : ~CodeLess(CodeUnits(y), CodeUnits(x))
         IN <<first>> \o sort(S \ {first})

\* the sidebar category list in the order renderCategories renders it
renderCategoriesSorted(imgs) == sort(renderCategories(imgs))

\* the entries of the management list that renderCategoriesList builds
renderCategoriesList(imgs) ==
    LET emptyCategoryRecords ==
            {imgs[i].category : i \in {j \in DOMAIN imgs :
                imgs[j].isEmptyCategory /\ StartsWith(imgs[j].name, EMPTY_PREFIX)}}
        realCategories ==
            {imgs[i].category : i \in {j \in DOMAIN imgs : ~imgs[j].isEmptyCategory}}
    IN ((emptyCategoryRecords \cup realCategories) \ {"", CAT_QUANBU, CAT_QITA})
           \cup {CAT_QITA}

\* the tags renderTagsListNew lists
renderTagsListNew(imgs) == UNION {Range(imgs[i].tags) : i \in DOMAIN imgs}

\* a variant of the category test in which '其他' matches only records without
\* a category
MatchesCategoryUncategorized(img, filter) ==
    \/ filter = CAT_ALL
    \/ filter = CAT_QITA /\ img.category \in {Null, ""}
    \/ filter # CAT_QITA /\ img.category = filter

\* the category test of renderGallery, selectAllVisible and updateUI
MatchesCategory(img, filter) ==
    \/ filter = CAT_ALL
    \/ filter = CAT_QITA /\ img.category \in {Null, "", CAT_QITA}
    \/ filter # CAT_QITA /\ img.category = filter

\* the tag test: every tag of the filter is among the record's tags
MatchesTags(img, tagFilters) ==
    Len(tagFilters) > 0 => (Len(img.tags) > 0 /\ Range(tagFilters) \subseteq Range(img.tags))

MatchesMode(img, mode) ==
    (mode # "" /\ mode # "ALL") => hasSuffix(img.name, mode)

\* the records renderGallery shows
renderGallery(imgs, filter, tagFilters, mode) ==
    SelectSeq(imgs, LAMBDA img :
        /\ ~img.isEmptyCategory
        /\ MatchesCategory(img, filter)
        /\ MatchesTags(img, tagFilters)
        /\ MatchesMode(img, mode))

Visible == renderGallery(allImages, currentFilter, currentTagFilters, currentModeFilter)


-----------------------------------------------------------------------------
(* Inputs *)

\* files the user uploads or drops
FileNames == {"x_DSC.jpg", "y.png"}
Files == {[name |-> n, data |-> "d1"] : n \in FileNames}

\* files of any name the file system admits, the name of an empty-category record
\* among them
NamedFiles ==
    {[name |-> n, data |-> "d1"] : n \in {EMPTY_PREFIX \o "Lab", "x_DSC.jpg", "y.png"}}

\* names typed into the category inputs
CategoryInputs == {"Lab", "Out", CAT_ALL, CAT_QITA}

\* an object store left by an earlier session: category Lab with its empty-category
\* record and one image, and one image imported from a folder Out
StoreLab ==
    << WithId(emptyCategoryRecord("Lab", 0), 1),
       WithId(ImageData("x_DSC.jpg", "Lab", <<"PBT">>, "d0", 0), 2),
       WithId(ImageData("z_tga.png", "Out", <<>>, "d0", 0), 3) >>

InitStores == {StoreLab}

\* a store with a record of every kind the views tell apart: category null (left by
\* deleteCategory), '' (a folder-less import of the second revision, line 2809) and
\* '其他' (an upload under that filter), with and without tags and mode suffixes
StoreView ==
    << WithId(emptyCategoryRecord("Lab", 0), 1),
       WithId(ImageData("x_DSC.jpg", "Lab", <<"PBT">>, "d0", 0), 2),
       WithId(ImageData("z_tga.png", "Out", <<>>, "d0", 0), 3),
       [ImageData("u.png", "", <<"PBT", "PET">>, "d0", 0) EXCEPT !.category = Null]
           @@ [id |-> 4],
       WithId(ImageData("v_DSC.png", "", <<>>, "d0", 0), 5),
       WithId(ImageData("w.png", CAT_QITA, <<"PET">>, "d0", 0), 6) >>

\* a store whose records an export and the import of its archive can go through
\* within MaxId: an empty-category record, a tagged image of a category and a
\* tagged image whose category deleteCategory set to null
StoreTrip ==
    << WithId(emptyCategoryRecord("Lab", 0), 1),
       WithId(ImageData("x_DSC.jpg", "Lab", <<"PBT">>, "d0", 0), 2),
       [ImageData("u.png", "", <<"PET">>, "d0", 0) EXCEPT !.category = Null]
           @@ [id |-> 3] >>

\* a store with an image of a category named '测试' and an image a folder-less
\* archive entry left with the category 'all'
StoreNamed ==
    << WithId(emptyCategoryRecord("Lab", 0), 1),
       WithId(ImageData("x_DSC.jpg", CAT_CESHI, <<>>, "d0", 0), 2),
       WithId(ImageData("y.png", CAT_ALL, <<>>, "d0", 0), 3) >>

\* a store whose images carry one tag, two tags and none
StoreTags ==
    << WithId(emptyCategoryRecord("Lab", 0), 1),
       WithId(ImageData("x_DSC.jpg", "Lab", <<"ABS", "PBT", "PA">>, "d0", 0), 2),
       WithId(ImageData("z_tga.png", "Out", <<"PBT">>, "d0", 0), 3),
       WithId(ImageData("u.png", "Out", <<>>, "d0", 0), 4) >>

\* a store with one image
StoreOne ==
    << WithId(emptyCategoryRecord("Lab", 0), 1),
       WithId(ImageData("x_DSC.jpg", "Out", <<"PBT">>, "d0", 0), 2) >>

\* values of the three filters the views are evaluated on
FilterInputs == {CAT_ALL, CAT_QITA, "Lab", "Out", "null"}
TagFilterInputs == {<<>>, <<"PBT">>, <<"PET">>, <<"PBT", "PET">>}
ModeInputs == {"DSC", "TGA", "ALL"}

Idle == [pc |-> "idle"]

\* nothing has been exported yet
NoExport == [images |-> <<>>]
GetAll == [kind |-> "getAll"]

\* adds already on their way to the store
PendingAdds ==
    Len(waiters)
    + Len(SelectSeq(readers, LAMBDA r : r.op = "add"))
    + Len(SelectSeq(txq, LAMBDA t : t.kind = "add"))
    + (IF imp.pc \in {"loop", "decode"} THEN Len(imp.entries) ELSE 0)

InFlight == Len(waiters) + Len(readers) + Len(txq)

\* room for k more adds and one more asynchronous task
CanStart(k) == InFlight < MaxPending /\ (nextId - 1) + PendingAdds + k <= MaxId

InitWith(stores) ==
    /\ store \in stores
    /\ nextId = Len(store) + 1
    /\ allImages = <<>>
    /\ selectedIds = {}
    /\ currentFilter = CAT_ALL
    /\ currentTagFilters = <<>>
    /\ currentModeFilter = "ALL"
    /\ confirmAction = Null
    /\ confirmParams = NoParams
    /\ deleteType = Null
    /\ deleteName = Null
    /\ confirmOpen = FALSE
    /\ renameType = Null
    /\ renameOldName = Null
    /\ renameOpen = FALSE
    /\ waiters = <<>>
    /\ readers = <<>>
    /\ txq = <<GetAll>>          \* window.onload: initDB().then(loadImages)
    /\ imp = Idle
    /\ pendingTagUpdates = <<>>
    /\ importOpen = FALSE
    /\ copiedImages = <<>>
    /\ currentDetailId = NoId
    /\ detailCategory = ""
    /\ detailTouched = FALSE
    /\ exported = NoExport
    /\ lastToast = ""
    /\ now = 1

Remove(seq, i) == SubSeq(seq, 1, i - 1) \o SubSeq(seq, i + 1, Len(seq))

-----------------------------------------------------------------------------
(* The store adapter: loadImages and the transactions *)

\* loadImages: the getAll request succeeds and replaces the snapshot
TxGetAll ==
    /\ txq # <<>> /\ Head(txq).kind = "getAll"
    /\ allImages' = store
    /\ txq' = Tail(txq)
    /\ UNCHANGED <<storeVars, selectedIds, filterVars, confirmVars, renameVars, waiters,
                   readers, importVars, copiedImages, overlayVars, lastToast, now>>

\* objectStore.add(record): the store assigns the next key
StoreAdd(recs, rec, id) == Append(recs, WithId(rec, id))

\* the add transactions of saveImage, saveImageWithCurrentTags, addCategory and
\* pasteCopiedImages, with their oncomplete callbacks
TxAdd ==
    /\ txq # <<>> /\ Head(txq).kind = "add"
    /\ LET t == Head(txq) IN
       /\ store' = StoreAdd(store, t.rec, nextId)
       /\ nextId' = nextId + 1
       /\ txq' = IF t.reload THEN Append(Tail(txq), GetAll) ELSE Tail(txq)
       /\ lastToast' = IF t.toast # "" THEN t.toast ELSE lastToast
    /\ UNCHANGED <<allImages, selectedIds, filterVars, confirmVars, renameVars, waiters,
                   readers, importVars, copiedImages, overlayVars, now>>

\* index of the first record a cursor meets whose name is name, 0 when there is none
FirstByName(recs, name) ==
    IF \E i \in DOMAIN recs : recs[i].name = name
    THEN Min({i \in DOMAIN recs : recs[i].name = name})
    ELSE 0

\* a variant of the callback that always takes the supplied category
UpdatedItemAnyCategory(item, t, date) ==
    [item EXCEPT !.data = t.data,
                 !.category = t.category,
                 !.tags = IF t.withTags THEN t.tags ELSE item.tags,
                 !.date = date]

\* the record the cursor callback of updateExistingImage (withTags = FALSE) and of
\* updateExistingImageWithTags (withTags = TRUE) writes back
UpdatedItem(item, t, date) ==
    [item EXCEPT !.data = t.data,
                 !.category = IF Falsy(t.category) THEN item.category ELSE t.category,
                 !.tags = IF t.withTags THEN t.tags ELSE item.tags,
                 !.date = date]

\* the scan of updateExistingImage: the first record of that name is rewritten and
\* the scan stops; oncomplete is only set when a record was found
updateExistingImage(recs, t, date) ==
    LET k == FirstByName(recs, t.name) IN
    IF k = 0 THEN recs ELSE [recs EXCEPT ![k] = UpdatedItem(recs[k], t, date)]

TxUpdateExisting ==
    /\ txq # <<>> /\ Head(txq).kind = "updateExisting"
    /\ LET t == Head(txq)
           found == FirstByName(store, t.name) # 0
       IN
       /\ store' = updateExistingImage(store, t, now)
       /\ txq' = IF found THEN Append(Tail(txq), GetAll) ELSE Tail(txq)
       /\ lastToast' = IF found THEN "updated" ELSE lastToast
    /\ UNCHANGED <<nextId, allImages, selectedIds, filterVars, confirmVars, renameVars,
                   waiters, readers, importVars, copiedImages, overlayVars, now>>

-----------------------------------------------------------------------------
(* Saving a file: saveImage and saveImageWithCurrentTags *)

\* a save request: fn is the function called
Save(fn, file, category, tags) ==
    [fn |-> fn, name |-> file.name, data |-> file.data, category |-> category,
     tags |-> IF fn = "saveImageWithCurrentTags" THEN tags ELSE <<>>,
     import |-> FALSE]

\* a variant of the save that overwrites a duplicate whatever the answer is
SaveCheckedAnyAnswer(w, ok) ==
    /\ readers' = Append(readers,
          IF checkDuplicateImage(w.name)
          THEN [op |-> "update", name |-> w.name, data |-> w.data,
                category |-> w.category, tags |-> w.tags,
                withTags |-> (w.fn = "saveImageWithCurrentTags")]
          ELSE [op |-> "add", name |-> w.name, data |-> w.data,
                category |-> w.category, tags |-> w.tags])
    /\ UNCHANGED lastToast

\* the body of saveImage / saveImageWithCurrentTags after waitForImagesLoaded:
\* ok is the answer to confirm()
SaveChecked(w, ok) ==
    IF checkDuplicateImage(w.name)
    THEN IF ok
         THEN /\ readers' = Append(readers,
                    [op |-> "update", name |-> w.name, data |-> w.data,
                     category |-> w.category, tags |-> w.tags,
                     withTags |-> (w.fn = "saveImageWithCurrentTags")])
              /\ UNCHANGED lastToast
         ELSE /\ lastToast' = "skipped"
              /\ UNCHANGED readers
    ELSE /\ readers' = Append(readers,
                [op |-> "add", name |-> w.name, data |-> w.data,
                 category |-> w.category, tags |-> w.tags])
         /\ UNCHANGED lastToast

\* waitForImagesLoaded resolves at once when the snapshot is not empty, and after
\* its timers otherwise
SaveCall(w, ok) ==
    IF Len(allImages) > 0
    THEN SaveChecked(w, ok) /\ UNCHANGED waiters
    ELSE waiters' = Append(waiters, w) /\ UNCHANGED <<readers, lastToast>>

\* fileInput change handler: saveImage(files[i], currentFilter)
UploadWith(file, ok) ==
        /\ CanStart(1)
        /\ SaveCall(Save("saveImage", file, currentFilter, <<>>), ok)
        /\ UNCHANGED <<storeVars, allImages, selectedIds, filterVars, confirmVars,
                       renameVars, txq, importVars, copiedImages, overlayVars, now>>

Upload == \E file \in Files, ok \in BOOLEAN : UploadWith(file, ok)

\* handleDrop: saveImageWithCurrentTags(files[i], currentFilter, currentTagFilters)
DropWith(file, ok) ==
        /\ CanStart(1)
        /\ SaveCall(Save("saveImageWithCurrentTags", file, currentFilter,
                         currentTagFilters), ok)
        /\ UNCHANGED <<storeVars, allImages, selectedIds, filterVars, confirmVars,
                       renameVars, txq, importVars, copiedImages, overlayVars, now>>

handleDrop == \E file \in Files, ok \in BOOLEAN : DropWith(file, ok)

\* reader.onload of a save: the transaction is created
ReaderLoad ==
    \E i \in DOMAIN readers :
        LET r == readers[i] IN
        /\ readers' = Remove(readers, i)
        /\ txq' = Append(txq,
              IF r.op = "add"
              THEN [kind |-> "add",
                    rec |-> ImageData(r.name, r.category, r.tags, r.data, now),
                    reload |-> TRUE, toast |-> ""]
              ELSE [kind |-> "updateExisting", name |-> r.name, data |-> r.data,
                    category |-> r.category, tags |-> r.tags, withTags |-> r.withTags])
        /\ UNCHANGED <<storeVars, allImages, selectedIds, filterVars, confirmVars,
                       renameVars, waiters, importVars, copiedImages, overlayVars, lastToast, now>>

\* updateExistingImage(file, category) and updateExistingImageWithTags(file, category,
\* tags) called with any arguments their signatures admit (category defaults to '')
OverwriteInputs == {"", "Out"}

UpdateExistingCall ==
    \E file \in Files, category \in OverwriteInputs, withTags \in BOOLEAN :
        /\ InFlight < MaxPending
        /\ readers' = Append(readers,
              [op |-> "update", name |-> file.name, data |-> file.data,
               category |-> category, tags |-> IF withTags THEN <<"PET">> ELSE <<>>,
               withTags |-> withTags])
        /\ UNCHANGED <<storeVars, allImages, selectedIds, filterVars, confirmVars,
                       renameVars, waiters, txq, importVars, copiedImages, overlayVars, lastToast, now>>

\* waitForImagesLoaded of a suspended save resolves and the save goes on
WaitResolveWith(i, ok) ==
        LET w == waiters[i] IN
        /\ ~w.import
        /\ waiters' = Remove(waiters, i)
        /\ SaveChecked(w, ok)
        /\ UNCHANGED <<storeVars, allImages, selectedIds, filterVars, confirmVars,
                       renameVars, txq, importVars, copiedImages, overlayVars, now>>

WaitResolve == \E i \in DOMAIN waiters, ok \in BOOLEAN : WaitResolveWith(i, ok)

-----------------------------------------------------------------------------
(* Selection and filters *)

\* a modal dialog covers the page
PageEnabled == ~confirmOpen /\ ~renameOpen /\ currentDetailId = NoId

\* the literal a template string writes for a list entry: null becomes 'null'
Literal(cat) == IF cat = Null THEN "null" ELSE cat

\* toggleSelect(id), from a card of the gallery
toggleSelect ==
    \E id \in Ids(Visible) :
        /\ PageEnabled
        /\ selectedIds' = IF id \in selectedIds THEN selectedIds \ {id}
                          ELSE selectedIds \cup {id}
        /\ UNCHANGED <<storeVars, allImages, filterVars, confirmVars, renameVars,
                       asyncVars, importVars, copiedImages, overlayVars, lastToast, now>>

\* a variant of filterCategory that clears the selection, the other choice its
\* comment names
filterCategoryClears ==
    \E cat \in {CAT_ALL} \cup {Literal(c) : c \in renderCategories(allImages)} :
        /\ PageEnabled
        /\ currentFilter' = cat
        /\ currentTagFilters' = <<>>
        /\ selectedIds' = {}
        /\ UNCHANGED <<storeVars, allImages, currentModeFilter, confirmVars,
                       renameVars, asyncVars, importVars, copiedImages, overlayVars, lastToast, now>>

\* filterCategory(cat), from the static 'all' button or an entry of the sidebar list
filterCategory ==
    \E cat \in {CAT_ALL} \cup {Literal(c) : c \in renderCategories(allImages)} :
        /\ PageEnabled
        /\ currentFilter' = cat
        /\ currentTagFilters' = <<>>
        /\ UNCHANGED <<storeVars, allImages, selectedIds, currentModeFilter, confirmVars,
                       renameVars, asyncVars, importVars, copiedImages, overlayVars, lastToast, now>>

\* the tags renderTags offers under the current category filter
renderTags ==
    UNION {Range(allImages[i].tags) : i \in {j \in DOMAIN allImages :
        /\ ~allImages[j].isEmptyCategory
        /\ (currentFilter = CAT_ALL \/ allImages[j].category = currentFilter)}}

\* toggleTag(tag), from a button of the tag bar
toggleTag ==
    \E tag \in {"all"} \cup renderTags :
        /\ PageEnabled
        /\ currentTagFilters' = IF tag = "all" THEN <<>> ELSE <<tag>>
        /\ UNCHANGED <<storeVars, allImages, selectedIds, currentFilter, currentModeFilter,
                       confirmVars, renameVars, asyncVars, importVars, copiedImages, overlayVars,
                       lastToast, now>>

\* a variant of the mode button that switches between DSC and TGA only
NextModeTwoWay(mode) ==
    IF mode = "DSC" THEN "TGA" ELSE "DSC"

\* toggleModeFilter: the value the mode button switches to
NextMode(mode) ==
    IF mode = "DSC" THEN "TGA" ELSE IF mode = "TGA" THEN "ALL" ELSE "DSC"

\* toggleModeFilter(), the mode button
toggleModeFilter ==
    /\ PageEnabled
    /\ currentModeFilter' = NextMode(currentModeFilter)
    /\ UNCHANGED <<storeVars, allImages, selectedIds, currentFilter, currentTagFilters,
                   confirmVars, renameVars, asyncVars, importVars, copiedImages,
                   overlayVars, lastToast, now>>

\* the list `visible` that selectAllVisible computes
selectAllVisibleSet(imgs, filter, tagFilters, mode) ==
    SelectSeq(imgs, LAMBDA img :
        /\ ~img.isEmptyCategory
        /\ (filter # CAT_ALL =>
               IF filter = CAT_QITA THEN img.category \in {Null, "", CAT_QITA}
               ELSE img.category = filter)
        /\ (Len(tagFilters) > 0 =>
               (Len(img.tags) > 0 /\ Range(tagFilters) \subseteq Range(img.tags)))
        /\ ((mode # "" /\ mode # "ALL") => hasSuffix(img.name, mode)))

\* the list `visible` that updateUI computes for the select-all button
updateUISet(imgs, filter, tagFilters, mode) ==
    SelectSeq(imgs, LAMBDA img :
        /\ ~img.isEmptyCategory
        /\ (filter # CAT_ALL =>
               IF filter = CAT_QITA THEN img.category \in {Null, "", CAT_QITA}
               ELSE img.category = filter)
        /\ (Len(tagFilters) > 0 =>
               (Len(img.tags) > 0 /\ Range(tagFilters) \subseteq Range(img.tags)))
        /\ ((mode # "" /\ mode # "ALL") => hasSuffix(img.name, mode)))

\* updateUI: the select-all button reads '取消全选' (deselect all)
AllVisibleSelected(imgs, filter, tagFilters, mode, selected) ==
    LET visible == Ids(updateUISet(imgs, filter, tagFilters, mode))
        visibleCount == Cardinality(visible)
        selectedVisibleCount == Cardinality(visible \cap selected)
    IN selectedVisibleCount = visibleCount /\ visibleCount > 0

\* a variant of the list of toggleSelectAll that keeps empty-category records
toggleSelectAllSetAnyRecord(imgs, filter, tagFilters, mode) ==
    SelectSeq(imgs, LAMBDA img :
        /\ (filter # CAT_ALL =>
               /\ IF filter = CAT_QITA THEN img.category \in {Null, ""}
                  ELSE img.category = filter
               /\ (Len(tagFilters) > 0 =>
                      (Len(img.tags) > 0 /\ Range(tagFilters) \subseteq Range(img.tags))))
        /\ ((mode # "" /\ mode # "ALL") => hasSuffix(img.name, mode)))

\* the list `visible` that toggleSelectAll computes: under the filter '其他' only
\* null and '' match, and the tag filter is applied inside the branch of a
\* category filter other than 'all'
toggleSelectAllSet(imgs, filter, tagFilters, mode) ==
    SelectSeq(imgs, LAMBDA img :
        /\ ~img.isEmptyCategory
        /\ (filter # CAT_ALL =>
               /\ IF filter = CAT_QITA THEN img.category \in {Null, ""}
                  ELSE img.category = filter
               /\ (Len(tagFilters) > 0 =>
                      (Len(img.tags) > 0 /\ Range(tagFilters) \subseteq Range(img.tags))))
        /\ ((mode # "" /\ mode # "ALL") => hasSuffix(img.name, mode)))

\* a variant of selectAllVisible that replaces the selection by the visible ids
SelectedOnlyVisible(imgs, filter, tagFilters, mode, selected) ==
    Ids(selectAllVisibleSet(imgs, filter, tagFilters, mode))

\* the selection selectAllVisible leaves
SelectedAfterSelectAll(imgs, filter, tagFilters, mode, selected) ==
    selected \cup Ids(selectAllVisibleSet(imgs, filter, tagFilters, mode))

\* selectAllVisible()
selectAllVisible ==
    /\ PageEnabled
    /\ selectedIds' = SelectedAfterSelectAll(allImages, currentFilter, currentTagFilters,
                                             currentModeFilter, selectedIds)
    /\ UNCHANGED <<storeVars, allImages, filterVars, confirmVars, renameVars, asyncVars,
                   importVars, copiedImages, overlayVars, lastToast, now>>

\* a variant of clearSelection that deselects the displayed images only
clearSelectionVisible ==
    /\ PageEnabled
    /\ selectedIds' = selectedIds \ Ids(Visible)
    /\ UNCHANGED <<storeVars, allImages, filterVars, confirmVars, renameVars, asyncVars,
                   importVars, copiedImages, overlayVars, lastToast, now>>

\* clearSelection()
clearSelection ==
    /\ PageEnabled
    /\ selectedIds' = {}
    /\ UNCHANGED <<storeVars, allImages, filterVars, confirmVars, renameVars, asyncVars,
                   importVars, copiedImages, overlayVars, lastToast, now>>

\* the selection toggleSelectAll leaves
SelectedAfterToggleAll(imgs, filter, tagFilters, mode, selected) ==
    LET visible == Ids(toggleSelectAllSet(imgs, filter, tagFilters, mode))
        visibleCount == Cardinality(visible)
        selectedVisibleCount == Cardinality(visible \cap selected)
    IN IF selectedVisibleCount = visibleCount /\ visibleCount > 0
       THEN selected \ visible
       ELSE selected \cup visible

\* toggleSelectAll(), the select-all button
toggleSelectAll ==
    /\ PageEnabled
    /\ selectedIds' = SelectedAfterToggleAll(allImages, currentFilter, currentTagFilters,
                                             currentModeFilter, selectedIds)
    /\ UNCHANGED <<storeVars, allImages, filterVars, confirmVars, renameVars, asyncVars,
                   importVars, copiedImages, overlayVars, lastToast, now>>

-----------------------------------------------------------------------------
(* Category and tag management *)

Reserved(name) == name = CAT_QUANBU \/ name = CAT_QITA

\* a variant of addCategory without the test for existing categories
addCategoryAgain(name) ==
        /\ PageEnabled
        /\ CanStart(1)
        /\ IF Reserved(name)
           THEN lastToast' = "reservedAdd" /\ UNCHANGED txq
           ELSE /\ txq' = Append(txq, [kind |-> "add",
                                       rec |-> emptyCategoryRecord(name, now),
                                       reload |-> TRUE, toast |-> "categoryAdded"])
                /\ UNCHANGED lastToast
        /\ UNCHANGED <<storeVars, allImages, selectedIds, filterVars, confirmVars,
                       renameVars, waiters, readers, importVars, copiedImages, overlayVars, now>>

\* addCategory(name), from handleAddCategoryClick with a non-empty trimmed name
addCategoryWith(name) ==
        /\ PageEnabled
        /\ CanStart(1)
        /\ IF Reserved(name)
           THEN lastToast' = "reservedAdd" /\ UNCHANGED txq
           ELSE IF name \in existingCategories
           THEN lastToast' = "existsAdd" /\ UNCHANGED txq
           ELSE /\ txq' = Append(txq, [kind |-> "add",
                                       rec |-> emptyCategoryRecord(name, now),
                                       reload |-> TRUE, toast |-> "categoryAdded"])
                /\ UNCHANGED lastToast
        /\ UNCHANGED <<storeVars, allImages, selectedIds, filterVars, confirmVars,
                       renameVars, waiters, readers, importVars, copiedImages, overlayVars, now>>

addCategory == \E name \in CategoryInputs : addCategoryWith(name)

\* prepareRename(name, type), from a rename button of the management lists
prepareRename ==
    /\ PageEnabled
    /\ \/ \E cat \in renderCategoriesList(allImages) \ {"", CAT_QUANBU, CAT_QITA} :
            renameType' = "category" /\ renameOldName' = Literal(cat)
       \/ \E tag \in renderTagsListNew(allImages) :
            renameType' = "tag" /\ renameOldName' = tag
    /\ renameOpen' = TRUE
    /\ UNCHANGED <<storeVars, allImages, selectedIds, filterVars, confirmVars, asyncVars,
                   importVars, copiedImages, overlayVars, lastToast, now>>

\* closeRenameDialog()
closeRenameDialog ==
    /\ renameOpen
    /\ renameType' = Null /\ renameOldName' = Null /\ renameOpen' = FALSE
    /\ UNCHANGED <<storeVars, allImages, selectedIds, filterVars, confirmVars, asyncVars,
                   importVars, copiedImages, overlayVars, lastToast, now>>

\* a variant of renameCategory without the test for reserved names
renameCategoryAnyName(oldName, newName) ==
    IF newName \in existingCategories
    THEN lastToast' = "existsRename" /\ UNCHANGED txq
    ELSE /\ txq' = Append(txq, [kind |-> "renameCategory", oldName |-> oldName,
                                newName |-> newName])
         /\ UNCHANGED lastToast

\* renameCategory(oldName, newName) up to the creation of its transaction
renameCategory(oldName, newName) ==
    IF Reserved(newName)
    THEN lastToast' = "reservedRename" /\ UNCHANGED txq
    ELSE IF newName \in existingCategories
    THEN lastToast' = "existsRename" /\ UNCHANGED txq
    ELSE /\ txq' = Append(txq, [kind |-> "renameCategory", oldName |-> oldName,
                                newName |-> newName])
         /\ UNCHANGED lastToast

\* renameTagNew(oldName, newName) up to the creation of its transaction
renameTagNew(oldName, newName) ==
    IF newName \in existingTags
    THEN lastToast' = "tagExists" /\ UNCHANGED txq
    ELSE /\ txq' = Append(txq, [kind |-> "renameTag", oldName |-> oldName,
                                newName |-> newName])
         /\ UNCHANGED lastToast

TagInputs == {"PBT", "PET"}

\* executeRename(), with the trimmed non-empty text of the rename input
executeRenameWith(newName) ==
        /\ renameOpen
        /\ InFlight < MaxPending
        /\ newName \in (IF renameType = "category" THEN CategoryInputs ELSE TagInputs)
        /\ IF renameOldName = newName
           THEN /\ renameType' = Null /\ renameOldName' = Null /\ renameOpen' = FALSE
                /\ UNCHANGED <<txq, lastToast>>
           ELSE /\ IF renameType = "category"
                   THEN renameCategory(renameOldName, newName)
                   ELSE renameTagNew(renameOldName, newName)
                /\ UNCHANGED renameVars
        /\ UNCHANGED <<storeVars, allImages, selectedIds, filterVars, confirmVars,
                       waiters, readers, importVars, copiedImages, overlayVars, now>>

executeRename == \E newName \in CategoryInputs \cup TagInputs : executeRenameWith(newName)

\* what the cursor callback of renameCategory leaves of a record: the second branch
\* of the source (the one that rewrites the name of an empty-category record) is
\* behind the same test as the first and never runs
RenamedCategory(value, oldName, newName) ==
    IF value.category = oldName
    THEN [value EXCEPT !.category = newName]
    ELSE value

\* the scan of renameCategory and its completion callback
TxRenameCategory ==
    /\ txq # <<>> /\ Head(txq).kind = "renameCategory"
    /\ LET t == Head(txq) IN
       /\ store' = [i \in DOMAIN store |-> RenamedCategory(store[i], t.oldName, t.newName)]
       /\ txq' = Append(Tail(txq), GetAll)
    /\ lastToast' = "renamed"
    /\ renameType' = Null /\ renameOldName' = Null /\ renameOpen' = FALSE
    /\ UNCHANGED <<nextId, allImages, selectedIds, filterVars, confirmVars, waiters,
                   readers, importVars, copiedImages, overlayVars, now>>

\* a variant of the replacement that moves the renamed tag to the end
RenamedTagsAtEnd(tags, oldName, newName) ==
    IF oldName \in Range(tags)
    THEN Append(SelectSeq(tags, LAMBDA tag : tag # oldName), newName)
    ELSE tags

\* value.tags.map(tag => tag === oldName ? newName : tag)
RenamedTags(tags, oldName, newName) ==
    [i \in DOMAIN tags |-> IF tags[i] = oldName THEN newName ELSE tags[i]]

\* the scan of renameTagNew and its completion callback
TxRenameTag ==
    /\ txq # <<>> /\ Head(txq).kind = "renameTag"
    /\ LET t == Head(txq) IN
       /\ store' = [i \in DOMAIN store |->
                       [store[i] EXCEPT !.tags = RenamedTags(@, t.oldName, t.newName)]]
       /\ txq' = Append(Tail(txq), GetAll)
    /\ lastToast' = "renamed"
    /\ renameType' = Null /\ renameOldName' = Null /\ renameOpen' = FALSE
    /\ UNCHANGED <<nextId, allImages, selectedIds, filterVars, confirmVars, waiters,
                   readers, importVars, copiedImages, overlayVars, now>>


\* closeConfirmDialog(): the dialog is hidden and deleteType, deleteName are reset;
\* confirmAction and confirmParams are not assigned
CloseConfirm ==
    /\ deleteType' = Null /\ deleteName' = Null /\ confirmOpen' = FALSE
    /\ UNCHANGED <<confirmAction, confirmParams>>

\* the cancel and close buttons of the confirm dialog
closeConfirmDialog ==
    /\ confirmOpen
    /\ CloseConfirm
    /\ UNCHANGED <<storeVars, allImages, selectedIds, filterVars, renameVars, asyncVars,
                   importVars, copiedImages, overlayVars, lastToast, now>>

\* deleteSelected(), the delete button of the toolbar
deleteSelected ==
    /\ PageEnabled
    /\ selectedIds # {}
    /\ confirmAction' = "deleteSelected"
    /\ confirmParams' = [count |-> Cardinality(selectedIds)]
    /\ confirmOpen' = TRUE
    /\ UNCHANGED <<storeVars, allImages, selectedIds, filterVars, deleteType, deleteName,
                   renameVars, asyncVars, importVars, copiedImages, overlayVars, lastToast, now>>

\* prepareDelete(name, type), from a delete button of the management lists; the
\* category list offers none for the reserved entries
prepareDelete ==
    /\ PageEnabled
    /\ \/ \E cat \in renderCategoriesList(allImages) \ {CAT_QUANBU, CAT_QITA} :
            deleteType' = "category" /\ deleteName' = (IF Falsy(cat) THEN "" ELSE cat)
       \/ \E tag \in renderTagsListNew(allImages) :
            deleteType' = "tag" /\ deleteName' = tag
    /\ confirmOpen' = TRUE
    /\ UNCHANGED <<storeVars, allImages, selectedIds, filterVars, confirmAction,
                   confirmParams, renameVars, asyncVars, importVars, copiedImages, overlayVars,
                   lastToast, now>>

\* the function executeConfirmAction dispatches to
ConfirmedAction ==
    IF confirmAction = "deleteSelected" THEN "deleteSelectedImages"
    ELSE IF deleteType = "category" THEN "deleteCategory"
    ELSE IF deleteType = "tag" THEN "deleteTagNew"
    ELSE "none"

\* executeConfirmAction(), the confirm button of the dialog.  The transaction keeps
\* what the dialog was asking about (asked) beside what the code captured.
executeConfirmAction ==
    /\ confirmOpen
    /\ InFlight < MaxPending
    /\ CASE ConfirmedAction = "deleteSelectedImages" ->
              IF selectedIds = {}
              THEN /\ lastToast' = "noneSelected"
                   /\ CloseConfirm
                   /\ UNCHANGED txq
              ELSE /\ txq' = Append(txq, [kind |-> "deleteSelected", ids |-> selectedIds,
                                          asked |-> deleteType])
                   /\ UNCHANGED <<confirmVars, lastToast>>
         [] ConfirmedAction = "deleteCategory" ->
              /\ txq' = Append(txq, [kind |-> "deleteCategory", name |-> deleteName,
                                      asked |-> deleteType])
              /\ UNCHANGED <<confirmVars, lastToast>>
         [] ConfirmedAction = "deleteTagNew" ->
              /\ txq' = Append(txq, [kind |-> "deleteTag", name |-> deleteName,
                                      asked |-> deleteType])
              /\ UNCHANGED <<confirmVars, lastToast>>
         [] OTHER -> UNCHANGED <<txq, confirmVars, lastToast>>
    /\ UNCHANGED <<storeVars, allImages, selectedIds, filterVars, renameVars, waiters,
                   readers, importVars, copiedImages, overlayVars, now>>

\* a variant of the scan that deletes every record of the category, images too
deleteCategoryWithImages(recs, name) ==
    SelectSeq(recs, LAMBDA v : v.category # name)

\* the scan of deleteCategory: empty-category records of the category are deleted,
\* images of the category get category null
deleteCategory(recs, name) ==
    LET kept == SelectSeq(recs, LAMBDA v : ~(v.category = name /\ v.isEmptyCategory)) IN
    [i \in DOMAIN kept |->
        IF kept[i].category = name THEN [kept[i] EXCEPT !.category = Null] ELSE kept[i]]

TxDeleteCategory ==
    /\ txq # <<>> /\ Head(txq).kind = "deleteCategory"
    /\ store' = deleteCategory(store, Head(txq).name)
    /\ txq' = Append(Tail(txq), GetAll)
    /\ lastToast' = "categoryDeleted"
    /\ CloseConfirm
    /\ UNCHANGED <<nextId, allImages, selectedIds, filterVars, renameVars, waiters,
                   readers, importVars, copiedImages, overlayVars, now>>

\* the scan of deleteTagNew: value.tags.filter(tag => tag !== name)
deleteTagNew(recs, name) ==
    [i \in DOMAIN recs |->
        [recs[i] EXCEPT !.tags = SelectSeq(@, LAMBDA tag : tag # name)]]

TxDeleteTag ==
    /\ txq # <<>> /\ Head(txq).kind = "deleteTag"
    /\ store' = deleteTagNew(store, Head(txq).name)
    /\ txq' = Append(Tail(txq), GetAll)
    /\ lastToast' = "tagDeleted"
    /\ CloseConfirm
    /\ UNCHANGED <<nextId, allImages, selectedIds, filterVars, renameVars, waiters,
                   readers, importVars, copiedImages, overlayVars, now>>

\* a variant of the scan that spares the records the category filter hides
deleteSelectedShown(recs, idsToDelete) ==
    SelectSeq(recs, LAMBDA v : v.id \notin idsToDelete
                                  \/ ~MatchesCategory(v, currentFilter))

\* the scan of deleteSelectedImages: every record whose id was selected at the call
deleteSelectedImages(recs, idsToDelete) ==
    SelectSeq(recs, LAMBDA v : v.id \notin idsToDelete)

TxDeleteSelected ==
    /\ txq # <<>> /\ Head(txq).kind = "deleteSelected"
    /\ store' = deleteSelectedImages(store, Head(txq).ids)
    /\ txq' = Append(Tail(txq), GetAll)
    /\ selectedIds' = {}
    /\ lastToast' = "deleted"
    /\ CloseConfirm
    /\ UNCHANGED <<nextId, allImages, filterVars, renameVars, waiters, readers,
                   importVars, copiedImages, overlayVars, now>>


-----------------------------------------------------------------------------
(* Archive import: handleZipFile *)

\* archives the user imports: the entries of zipContent.files other than folders
\* and tags.json, in order, and the parsed tags.json ([] when the archive has none)
ZipFolders ==
    [entries |-> << [path |-> "Lab/y.png", data |-> "d1"],
                    [path |-> "Out/y.png", data |-> "d1"] >>,
     tagsInfo |-> <<>>]
ZipFlat ==
    [entries |-> << [path |-> "notes.txt", data |-> "d1"],
                    [path |-> "y.png", data |-> "d1"] >>,
     tagsInfo |-> << [name |-> "y.png", tags |-> <<"PET">>] >>]
ZipExisting ==
    [entries |-> << [path |-> "Lab/x_DSC.jpg", data |-> "d1"] >>,
     tagsInfo |-> <<>>]
Archives == {ZipFolders, ZipFlat, ZipExisting}

\* an archive whose tags.json names its first image
ZipTagged ==
    [entries |-> << [path |-> "y.png", data |-> "d1"],
                    [path |-> "Out/z_tga.png", data |-> "d1"] >>,
     tagsInfo |-> << [name |-> "y.png", tags |-> <<"PET">>] >>]

\* handleZipFile(file) up to the entry loop, called from the file input of the
\* import dialog: zip is the archive read, overwrite the state of the checkbox
\* #import-overwrite-checkbox
handleZipFileWith(zip, overwrite) ==
        /\ PageEnabled
        /\ imp = Idle
        /\ CanStart(Len(zip.entries))
        /\ imp' = [pc |-> "loop", entries |-> zip.entries, tagsInfo |-> zip.tagsInfo,
                   overwrite |-> overwrite, importedFiles |-> 0, skippedFiles |-> 0,
                   k |-> 0]
        /\ importOpen' = TRUE
        /\ lastToast' = "importStart"
        /\ UNCHANGED <<storeVars, allImages, selectedIds, filterVars, confirmVars,
                       renameVars, asyncVars, pendingTagUpdates, copiedImages, overlayVars, now>>

handleZipFile == \E zip \in Archives, overwrite \in BOOLEAN : handleZipFileWith(zip, overwrite)

handleZipTagged == \E overwrite \in BOOLEAN : handleZipFileWith(ZipTagged, overwrite)

\* allImages.find(img => img.name === actualFilename) is defined
existingImage(actualFilename) ==
    \E i \in DOMAIN allImages : allImages[i].name = actualFilename

\* one turn of the entry loop up to await zipEntry.async('base64')
ImportClassify ==
    /\ imp.pc = "loop" /\ imp.entries # <<>>
    /\ LET actualFilename == EntryFilename(Head(imp.entries).path)
           ext == toLowerCase(LastDotPart(actualFilename))
       IN
       imp' = IF ext \notin IMAGE_EXTENSIONS
              THEN [imp EXCEPT !.entries = Tail(@)]
              ELSE IF existingImage(actualFilename) /\ ~imp.overwrite
              THEN [imp EXCEPT !.entries = Tail(@), !.skippedFiles = @ + 1]
              ELSE [imp EXCEPT !.pc = "decode"]
    /\ UNCHANGED <<storeVars, allImages, selectedIds, filterVars, confirmVars, renameVars,
                   asyncVars, pendingTagUpdates, importOpen, copiedImages, overlayVars,
                   lastToast, now>>

\* the rest of a turn once saveImage has returned: the tags of tags.json for this
\* file are queued in window.pendingTagUpdates
AfterSave ==
    LET actualFilename == EntryFilename(Head(imp.entries).path)
        hits == {i \in DOMAIN imp.tagsInfo : imp.tagsInfo[i].name = actualFilename}
    IN
    /\ pendingTagUpdates' =
          IF hits # {} /\ Len(imp.tagsInfo[Min(hits)].tags) > 0
          THEN Append(pendingTagUpdates,
                      [name |-> actualFilename, tags |-> imp.tagsInfo[Min(hits)].tags])
          ELSE pendingTagUpdates
    /\ imp' = [imp EXCEPT !.entries = Tail(@), !.importedFiles = @ + 1, !.pc = "loop"]

\* the save request of an entry: saveImage(blob, category || 'all')
EntrySave(entry) ==
    [fn |-> "saveImage", name |-> EntryFilename(entry.path), data |-> entry.data,
     category |-> IF EntryCategory(entry.path) = "" THEN CAT_ALL
                  ELSE EntryCategory(entry.path),
     tags |-> <<>>, import |-> TRUE]

\* the entry is decoded and saveImage is called; ok is the answer to its confirm()
ImportSaveWith(ok) ==
        /\ imp.pc = "decode"
        /\ IF Len(allImages) > 0
           THEN /\ SaveChecked(EntrySave(Head(imp.entries)), ok)
                /\ AfterSave
                /\ UNCHANGED waiters
           ELSE /\ waiters' = Append(waiters, EntrySave(Head(imp.entries)))
                /\ imp' = [imp EXCEPT !.pc = "saving"]
                /\ UNCHANGED <<readers, lastToast, pendingTagUpdates>>
        /\ UNCHANGED <<storeVars, allImages, selectedIds, filterVars, confirmVars,
                       renameVars, txq, importOpen, copiedImages, overlayVars, now>>

ImportSave == \E ok \in BOOLEAN : ImportSaveWith(ok)

\* waitForImagesLoaded of the entry's saveImage resolves
ImportResumeWith(ok) ==
    \E i \in DOMAIN waiters :
        /\ waiters[i].import
        /\ imp.pc = "saving"
        /\ waiters' = Remove(waiters, i)
        /\ SaveChecked(waiters[i], ok)
        /\ AfterSave
        /\ UNCHANGED <<storeVars, allImages, selectedIds, filterVars, confirmVars,
                       renameVars, txq, importOpen, copiedImages, overlayVars, now>>

ImportResume == \E ok \in BOOLEAN : ImportResumeWith(ok)

\* a variant of the failure in which the loop goes on with the next entry
ImportThrowSkips ==
    /\ imp.pc = "decode"
    /\ imp' = [imp EXCEPT !.entries = Tail(@), !.pc = "loop"]
    /\ lastToast' = "importFailed"
    /\ UNCHANGED <<storeVars, allImages, selectedIds, filterVars, confirmVars, renameVars,
                   asyncVars, pendingTagUpdates, importOpen, copiedImages, overlayVars, now>>

\* zipEntry.async('base64') rejects (the entry cannot be read): the catch block
\* shows the failure toast and closes the import dialog; window.pendingTagUpdates
\* is left as it is
ImportThrow ==
    /\ imp.pc = "decode"
    /\ imp' = Idle
    /\ lastToast' = "importFailed"
    /\ importOpen' = FALSE
    /\ UNCHANGED <<storeVars, allImages, selectedIds, filterVars, confirmVars, renameVars,
                   asyncVars, pendingTagUpdates, copiedImages, overlayVars, now>>

UpdateTagsTx(update) ==
    [kind |-> "updateTagsByName", name |-> update.name, tags |-> update.tags]

\* after the loop: loadImages, then the first updateImageTagsByName or the end
ImportFinish ==
    /\ imp.pc = "loop" /\ imp.entries = <<>>
    /\ IF Len(pendingTagUpdates) > 0
       THEN /\ txq' = txq \o <<GetAll, UpdateTagsTx(pendingTagUpdates[1])>>
            /\ imp' = [imp EXCEPT !.pc = "tags", !.k = 1]
            /\ UNCHANGED <<lastToast, importOpen>>
       ELSE /\ txq' = Append(txq, GetAll)
            /\ imp' = Idle
            /\ lastToast' = "importDone"
            /\ importOpen' = FALSE
    /\ UNCHANGED <<storeVars, allImages, selectedIds, filterVars, confirmVars, renameVars,
                   waiters, readers, pendingTagUpdates, copiedImages, overlayVars, now>>

\* the scan of updateImageTagsByName: the first record of that name gets the tags
updateImageTagsByName(recs, imageName, newTags) ==
    LET k == FirstByName(recs, imageName) IN
    IF k = 0 THEN recs ELSE [recs EXCEPT ![k].tags = newTags]

\* the scan resolves its promise and handleZipFile goes on with the next update, or
\* clears window.pendingTagUpdates, reloads and ends
TxUpdateTagsByName ==
    /\ txq # <<>> /\ Head(txq).kind = "updateTagsByName"
    /\ store' = updateImageTagsByName(store, Head(txq).name, Head(txq).tags)
    /\ IF imp.pc = "tags" /\ imp.k < Len(pendingTagUpdates)
       THEN /\ txq' = Append(Tail(txq), UpdateTagsTx(pendingTagUpdates[imp.k + 1]))
            /\ imp' = [imp EXCEPT !.k = @ + 1]
            /\ UNCHANGED <<pendingTagUpdates, lastToast, importOpen>>
       ELSE /\ txq' = Append(Tail(txq), GetAll)
            /\ imp' = Idle
            /\ pendingTagUpdates' = <<>>
            /\ lastToast' = "importDone"
            /\ importOpen' = FALSE
    /\ UNCHANGED <<nextId, allImages, selectedIds, filterVars, confirmVars, renameVars,
                   waiters, readers, copiedImages, overlayVars, now>>

-----------------------------------------------------------------------------
(* Archive export: exportSelected and exportAsZip *)

CAT_WEIFENLEI == "weifenlei"    \* '未分类', the folder of images without a category

\* the folder exportAsZip files an image under: img.category || '未分类'
ExportFolder(img) == IF Falsy(img.category) THEN CAT_WEIFENLEI ELSE img.category

\* the path of an image in the archive:
\* `${category}/${removeFileExtension(img.name)}.${extension}`
ExportPath(img) ==
    ExportFolder(img) \o "/" \o removeFileExtension(img.name) \o "."
        \o toLowerCase(LastDotPart(img.name))

\* the images in the order of Object.entries(imagesByCategory): by the first
\* appearance of their folder, then in the order of selectedImages
RECURSIVE ByCategory(_)
ByCategory(imgs) ==
    IF imgs = <<>> THEN <<>>
    ELSE LET folder == ExportFolder(Head(imgs)) IN
         SelectSeq(imgs, LAMBDA img : ExportFolder(img) = folder)
             \o ByCategory(SelectSeq(imgs, LAMBDA img : ExportFolder(img) # folder))

\* zip.file(path, data) for each image in turn: a path filed twice keeps its
\* place and takes the later data
ZipFiles(imgs) ==
    LET firsts == SelectSeq([i \in DOMAIN imgs |-> i],
                      LAMBDA i : \A j \in 1..(i - 1) : ExportPath(imgs[j]) # ExportPath(imgs[i]))
    IN [n \in DOMAIN firsts |->
           LET path == ExportPath(imgs[firsts[n]])
               last == Max({j \in DOMAIN imgs : ExportPath(imgs[j]) = path})
           IN [path |-> path, data |-> imgs[last].data]]

\* the archive exportAsZip generates from selectedImages, as handleZipFile reads it
exportAsZip(selectedImages) ==
    [entries |-> ZipFiles(ByCategory(selectedImages)),
     tagsInfo |-> LET tagged == SelectSeq(selectedImages, LAMBDA img : Len(img.tags) > 0)
                  IN [i \in DOMAIN tagged |->
                         [name |-> tagged[i].name, tags |-> tagged[i].tags]]]

\* exportSelected(): the selected records that are not empty-category records are
\* exported; the archive option of the dialog is taken
exportSelected ==
    LET selectedImages ==
            SelectSeq(allImages, LAMBDA img : img.id \in selectedIds /\ ~img.isEmptyCategory)
    IN
    /\ PageEnabled
    /\ IF selectedIds = {} THEN
           /\ lastToast' = "selectFirst"
           /\ UNCHANGED exported
       ELSE IF selectedImages = <<>> THEN
           /\ lastToast' = "nothingToExport"
           /\ UNCHANGED exported
       ELSE
           /\ exported' = [zip |-> exportAsZip(selectedImages), images |-> selectedImages]
           /\ lastToast' = "exported"
    /\ UNCHANGED <<storeVars, allImages, selectedIds, filterVars, confirmVars, renameVars,
                   asyncVars, importVars, copiedImages, currentDetailId, detailCategory,
                   detailTouched, now>>

-----------------------------------------------------------------------------
(* The detail dialog: openDetail, saveDetail, closeDetail *)

\* the options of the select #detail-category: the categories of the snapshot
\* that are not empty, and '其他'
DetailOptions == existingCategories \cup {CAT_QITA}

\* openDetail(id), from the card of a displayed image: an image without a category
\* gets '其他' selected
openDetail ==
    \E k \in DOMAIN Visible :
        LET img == Visible[k] IN
        /\ PageEnabled
        /\ currentDetailId' = img.id
        /\ detailCategory' = IF Falsy(img.category) THEN CAT_QITA ELSE img.category
        /\ detailTouched' = FALSE
        /\ UNCHANGED <<storeVars, allImages, selectedIds, filterVars, confirmVars,
                       renameVars, asyncVars, importVars, copiedImages, exported,
                       lastToast, now>>

\* the user picks another option of the select
changeDetailCategory ==
    \E cat \in DetailOptions \ {detailCategory} :
        /\ currentDetailId # NoId
        /\ detailCategory' = cat
        /\ detailTouched' = TRUE
        /\ UNCHANGED <<storeVars, allImages, selectedIds, filterVars, confirmVars,
                       renameVars, asyncVars, importVars, copiedImages, currentDetailId,
                       exported, lastToast, now>>

\* saveDetail(): the image of the snapshot takes the value of the select and is
\* put into the store.  The transaction keeps, beside the record, the category
\* the image had (was) and whether the select was changed (touched).
saveDetail ==
    /\ currentDetailId # NoId
    /\ \E k \in DOMAIN allImages : allImages[k].id = currentDetailId
    /\ InFlight < MaxPending
    /\ LET k == CHOOSE k \in DOMAIN allImages : allImages[k].id = currentDetailId
           img == [allImages[k] EXCEPT !.category = detailCategory]
       IN /\ allImages' = [allImages EXCEPT ![k] = img]
          /\ txq' = Append(txq, [kind |-> "put", rec |-> img,
                                  was |-> allImages[k].category,
                                  touched |-> detailTouched])
    /\ UNCHANGED <<storeVars, selectedIds, filterVars, confirmVars, renameVars, waiters,
                   readers, importVars, copiedImages, overlayVars, lastToast, now>>

\* objectStore.put(record): the record of that key is replaced, or the record is
\* inserted at its key
StorePut(recs, rec) ==
    IF \E j \in DOMAIN recs : recs[j].id = rec.id
    THEN [j \in DOMAIN recs |-> IF recs[j].id = rec.id THEN rec ELSE recs[j]]
    ELSE SelectSeq(recs, LAMBDA r : r.id < rec.id) \o <<rec>>
             \o SelectSeq(recs, LAMBDA r : r.id > rec.id)

\* the transaction of saveDetail completes: closeDetail and the toast
TxPut ==
    /\ txq # <<>> /\ Head(txq).kind = "put"
    /\ store' = StorePut(store, Head(txq).rec)
    /\ txq' = Tail(txq)
    /\ currentDetailId' = NoId
    /\ lastToast' = "saved"
    /\ UNCHANGED <<nextId, allImages, selectedIds, filterVars, confirmVars, renameVars,
                   waiters, readers, importVars, copiedImages, detailCategory,
                   detailTouched, exported, now>>

\* a variant of the failure handler that closes the dialog as oncomplete does
TxPutErrorCloses ==
    /\ txq # <<>> /\ Head(txq).kind = "put"
    /\ txq' = Tail(txq)
    /\ currentDetailId' = NoId
    /\ lastToast' = "saveFailed"
    /\ UNCHANGED <<storeVars, allImages, selectedIds, filterVars, confirmVars, renameVars,
                   waiters, readers, importVars, copiedImages, detailCategory,
                   detailTouched, exported, now>>

\* the transaction of saveDetail fails (the put is refused, e.g. for lack of
\* space): transaction.onerror shows the toast and nothing else
TxPutError ==
    /\ txq # <<>> /\ Head(txq).kind = "put"
    /\ txq' = Tail(txq)
    /\ lastToast' = "saveFailed"
    /\ UNCHANGED <<storeVars, allImages, selectedIds, filterVars, confirmVars, renameVars,
                   waiters, readers, importVars, copiedImages, overlayVars, now>>

\* the image of the snapshot the detail dialog is open on
DetailIndex == CHOOSE k \in DOMAIN allImages : allImages[k].id = currentDetailId

\* addTagToDetail(), with the trimmed text of the tag input: the tag is pushed
\* onto the tags of the image of the snapshot
addTagToDetail ==
    \E tag \in {"PBT", "PET"} :
        /\ currentDetailId # NoId
        /\ \E k \in DOMAIN allImages : allImages[k].id = currentDetailId
        /\ IF tag \in Range(allImages[DetailIndex].tags)
           THEN lastToast' = "tagExists" /\ UNCHANGED allImages
           ELSE /\ Len(allImages[DetailIndex].tags) < MaxTags
                /\ allImages' = [allImages EXCEPT ![DetailIndex].tags = Append(@, tag)]
                /\ UNCHANGED lastToast
        /\ UNCHANGED <<storeVars, selectedIds, filterVars, confirmVars, renameVars,
                       asyncVars, importVars, copiedImages, overlayVars, now>>

\* removeTagFromDetail(tag), from the button of a tag the dialog shows
removeTagFromDetail ==
    /\ currentDetailId # NoId
    /\ \E k \in DOMAIN allImages : allImages[k].id = currentDetailId
    /\ \E tag \in Range(allImages[DetailIndex].tags) :
          allImages' = [allImages EXCEPT ![DetailIndex].tags =
                                              SelectSeq(@, LAMBDA t : t # tag)]
    /\ UNCHANGED <<storeVars, selectedIds, filterVars, confirmVars, renameVars,
                   asyncVars, importVars, copiedImages, overlayVars, lastToast, now>>

\* closeDetail(), the close button of the dialog
closeDetail ==
    /\ currentDetailId # NoId
    /\ currentDetailId' = NoId
    /\ UNCHANGED <<storeVars, allImages, selectedIds, filterVars, confirmVars, renameVars,
                   asyncVars, importVars, copiedImages, detailCategory, detailTouched,
                   exported, lastToast, now>>

-----------------------------------------------------------------------------
(* Copy and paste *)

\* Ctrl+C: copiedImages = allImages.filter(img => selectedIds.has(img.id))
copySelected ==
    /\ selectedIds # {}
    /\ copiedImages' = SelectSeq(allImages, LAMBDA img : img.id \in selectedIds)
    /\ UNCHANGED <<storeVars, allImages, selectedIds, filterVars, confirmVars, renameVars,
                   asyncVars, importVars, overlayVars, lastToast, now>>

\* the record pasteCopiedImages builds from a copied image
newImageData(img, date) ==
    [name |-> "COPY_" \o img.name,
     category |-> IF currentFilter = CAT_ALL THEN img.category ELSE currentFilter,
     tags |-> img.tags, data |-> img.data, date |-> date, isEmptyCategory |-> FALSE]

\* pasteCopiedImages(): one add transaction per copied image; the completion of the
\* last one reloads
pasteCopiedImages ==
    \E ok \in BOOLEAN :
        /\ copiedImages # <<>>
        /\ CanStart(Len(copiedImages))
        /\ IF ok
           THEN txq' = txq \o [i \in DOMAIN copiedImages |->
                    [kind |-> "add", rec |-> newImageData(copiedImages[i], now),
                     reload |-> (i = Len(copiedImages)),
                     toast |-> IF i = Len(copiedImages) THEN "pasted" ELSE ""]]
           ELSE UNCHANGED txq
        /\ UNCHANGED <<storeVars, allImages, selectedIds, filterVars, confirmVars,
                       renameVars, waiters, readers, importVars, copiedImages, overlayVars,
                       lastToast, now>>

-----------------------------------------------------------------------------
(* Specifications *)

\* the program as it starts on a store left by an earlier session
Init == InitWith(InitStores)

\* uploads and drops
NextSave ==
    \/ TxGetAll
    \/ TxAdd
    \/ TxUpdateExisting
    \/ Upload
    \/ handleDrop
    \/ WaitResolve
    \/ ReaderLoad
    \/ filterCategory

SpecSave == Init /\ [][NextSave]_vars

\* the overwrite functions applied to arguments of their whole domain
NextOverwrite ==
    \/ TxGetAll
    \/ TxUpdateExisting
    \/ ReaderLoad
    \/ UpdateExistingCall

SpecOverwrite == Init /\ [][NextOverwrite]_vars

\* filters and selection over a loaded snapshot
InitView == InitWith({StoreView})

NextView ==
    \/ TxGetAll
    \/ toggleSelect
    \/ filterCategory
    \/ toggleTag
    \/ toggleModeFilter
    \/ selectAllVisible
    \/ clearSelection
    \/ toggleSelectAll

SpecView == InitView /\ [][NextView]_vars

\* creating and renaming categories and tags
NextRename ==
    \/ TxGetAll
    \/ TxAdd
    \/ TxRenameCategory
    \/ TxRenameTag
    \/ addCategory
    \/ prepareRename
    \/ closeRenameDialog
    \/ executeRename

SpecRename == Init /\ [][NextRename]_vars

\* selection, the confirm dialog and the deletions it confirms
NextDelete ==
    \/ TxGetAll
    \/ TxDeleteCategory
    \/ TxDeleteTag
    \/ TxDeleteSelected
    \/ toggleSelect
    \/ closeConfirmDialog
    \/ deleteSelected
    \/ prepareDelete
    \/ executeConfirmAction

SpecDelete == Init /\ [][NextDelete]_vars

\* the deletion of the selection under a category filter
NextDeleteSelected ==
    \/ TxGetAll
    \/ TxDeleteSelected
    \/ toggleSelect
    \/ filterCategory
    \/ deleteSelected
    \/ closeConfirmDialog
    \/ executeConfirmAction

SpecDeleteSelected == Init /\ [][NextDeleteSelected]_vars

\* deletions of categories and tags while a filter is set
NextFilterDelete ==
    \/ TxGetAll
    \/ TxDeleteCategory
    \/ TxDeleteTag
    \/ filterCategory
    \/ toggleTag
    \/ closeConfirmDialog
    \/ prepareDelete
    \/ executeConfirmAction

SpecFilterDelete == Init /\ [][NextFilterDelete]_vars

\* the program as it starts on the store of the round trip
InitRoundTrip == InitWith({StoreTrip})

\* the detail dialog
NextDetail ==
    \/ TxGetAll
    \/ TxPut
    \/ filterCategory
    \/ openDetail
    \/ changeDetailCategory
    \/ saveDetail
    \/ closeDetail

SpecDetail == InitRoundTrip /\ [][NextDetail]_vars

\* the category list over the snapshots the detail dialog leaves
InitCategories == InitWith({StoreLab, StoreTrip, StoreNamed})

SpecCategories == InitCategories /\ [][NextDetail]_vars

\* renaming and deleting tags from the tag management list
InitTags == InitWith({StoreTags})

prepareRenameTag == prepareRename /\ renameType' = "tag"

prepareDeleteTag == prepareDelete /\ deleteType' = "tag"

NextTags ==
    \/ TxGetAll
    \/ TxRenameTag
    \/ TxDeleteTag
    \/ prepareRenameTag
    \/ closeRenameDialog
    \/ executeRename
    \/ prepareDeleteTag
    \/ closeConfirmDialog
    \/ executeConfirmAction

SpecTags == InitTags /\ [][NextTags]_vars

\* the detail dialog with its tag editor and with puts that fail
NextDetailError ==
    \/ TxGetAll
    \/ TxPut
    \/ TxPutError
    \/ openDetail
    \/ changeDetailCategory
    \/ addTagToDetail
    \/ removeTagFromDetail
    \/ saveDetail
    \/ closeDetail

InitOne == InitWith({StoreOne})

SpecDetailError == InitOne /\ [][NextDetailError]_vars

\* the tag editor of the detail dialog together with the renaming of tags
NextDetailTags ==
    \/ TxGetAll
    \/ TxPut
    \/ TxRenameTag
    \/ openDetail
    \/ addTagToDetail
    \/ removeTagFromDetail
    \/ saveDetail
    \/ closeDetail
    \/ prepareRenameTag
    \/ closeRenameDialog
    \/ executeRename

SpecDetailTags == InitOne /\ [][NextDetailTags]_vars

\* the detail dialog while uploads overwrite a record by name
UploadExisting ==
    /\ Len(allImages) > 0
    /\ \E ok \in BOOLEAN : UploadWith([name |-> "x_DSC.jpg", data |-> "d1"], ok)

\* uploads of a file of an existing name while images are deleted; the store
\* requests and the file reads always come to their end
NextUploadDelete ==
    \/ TxGetAll
    \/ TxAdd
    \/ TxUpdateExisting
    \/ TxDeleteSelected
    \/ ReaderLoad
    \/ UploadExisting
    \/ toggleSelect
    \/ deleteSelected
    \/ closeConfirmDialog
    \/ executeConfirmAction

SpecUploadDelete ==
    /\ Init /\ [][NextUploadDelete]_vars
    /\ WF_<<txq, readers>>(TxGetAll) /\ WF_<<txq, readers>>(TxAdd)
    /\ WF_<<txq, readers>>(TxUpdateExisting) /\ WF_<<txq, readers>>(TxDeleteSelected)
    /\ WF_<<txq, readers>>(ReaderLoad)

NextDetailUpload ==
    \/ TxGetAll
    \/ TxUpdateExisting
    \/ TxPut
    \/ ReaderLoad
    \/ UploadExisting
    \/ openDetail
    \/ changeDetailCategory
    \/ saveDetail
    \/ closeDetail

SpecDetailUpload == Init /\ [][NextDetailUpload]_vars

\* uploads of files of any name
UploadNamed == \E file \in NamedFiles, ok \in BOOLEAN : UploadWith(file, ok)

NextNamed ==
    \/ TxGetAll
    \/ TxAdd
    \/ TxUpdateExisting
    \/ WaitResolve
    \/ ReaderLoad
    \/ UploadNamed

SpecNamed == Init /\ [][NextNamed]_vars

\* an export of the selection and the import of the exported archive with the
\* overwrite box ticked and every confirm() accepted
ExportAtRest == imp = Idle /\ InFlight = 0 /\ exportSelected

ImportExported == exported # NoExport /\ handleZipFileWith(exported.zip, TRUE)

NextRoundTrip ==
    \/ TxGetAll
    \/ TxUpdateExisting
    \/ TxUpdateTagsByName
    \/ ReaderLoad
    \/ toggleSelect
    \/ ExportAtRest
    \/ ImportExported
    \/ ImportClassify
    \/ ImportSaveWith(TRUE)
    \/ ImportFinish

SpecRoundTrip == InitRoundTrip /\ [][NextRoundTrip]_vars

\* archive import
NextImport ==
    \/ TxGetAll
    \/ TxAdd
    \/ TxUpdateExisting
    \/ TxUpdateTagsByName
    \/ ReaderLoad
    \/ handleZipFile
    \/ ImportClassify
    \/ ImportSave
    \/ ImportResume
    \/ ImportFinish

SpecImport == Init /\ [][NextImport]_vars

\* archive import with entries that cannot be read
NextImportError ==
    \/ TxGetAll
    \/ TxAdd
    \/ TxUpdateExisting
    \/ TxUpdateTagsByName
    \/ ReaderLoad
    \/ handleZipFile
    \/ ImportClassify
    \/ ImportSave
    \/ ImportResume
    \/ ImportThrow
    \/ ImportFinish

SpecImportError == Init /\ [][NextImportError]_vars

\* imports that follow an import that failed
NextImportStale ==
    \/ TxGetAll
    \/ TxAdd
    \/ TxUpdateExisting
    \/ TxUpdateTagsByName
    \/ ReaderLoad
    \/ handleZipFile
    \/ handleZipTagged
    \/ ImportClassify
    \/ ImportSave
    \/ ImportResume
    \/ ImportThrow
    \/ ImportFinish

SpecImportStale == Init /\ [][NextImportStale]_vars

\* archive import with the overwrite box left unticked
ImportKeep == \E zip \in Archives : handleZipFileWith(zip, FALSE)

NextKeep ==
    \/ TxGetAll
    \/ TxAdd
    \/ TxUpdateExisting
    \/ TxUpdateTagsByName
    \/ ReaderLoad
    \/ ImportKeep
    \/ ImportClassify
    \/ ImportSave
    \/ ImportResume
    \/ ImportFinish

SpecKeep == Init /\ [][NextKeep]_vars

\* copy and paste
NextPaste ==
    \/ TxGetAll
    \/ TxAdd
    \/ toggleSelect
    \/ filterCategory
    \/ copySelected
    \/ pasteCopiedImages

SpecPaste == Init /\ [][NextPaste]_vars

-----------------------------------------------------------------------------
(* Claims *)

Image(r) == ~r.isEmptyCategory

\* C1: no two image records of the store (records that are not empty-category
\* records) have the same name, whatever saves were issued and however they
\* interleaved.
C1_UniqueNames ==
    \A i, j \in DOMAIN store :
        (i # j /\ Image(store[i]) /\ Image(store[j])) => store[i].name # store[j].name

\* C2: a transaction issued by confirming the deletion of a category or of a tag
\* (the dialog was asking about a category or a tag) removes no image record from
\* the store.
C2_ConfirmKeepsImages ==
    [][(/\ txq # <<>>
        /\ Head(txq).kind \in {"deleteCategory", "deleteTag", "deleteSelected"}
        /\ Head(txq).asked \in {"category", "tag"})
       => Ids(RealRecords(store)) \subseteq Ids(RealRecords(store'))]_vars

\* C3: in every snapshot, every image record with a non-empty category has that
\* category among the entries of the category list.
C3_CategoryListed ==
    \A i \in DOMAIN allImages :
        (Image(allImages[i]) /\ ~Falsy(allImages[i].category))
            => allImages[i].category \in renderCategories(allImages)

\* C4: when the scan of renameCategory(A, B) completes, with B not reserved and
\* not the category of any record, and A the category of some record: the category
\* list of the reloaded snapshot contains B and not A, every record whose category
\* was A has category B, and every other record is unchanged.
C4_RenameCategory ==
    [][(/\ TxRenameCategory
        /\ ~Reserved(Head(txq).newName)
        /\ \A i \in DOMAIN store : store[i].category # Head(txq).newName
        /\ \E i \in DOMAIN store : store[i].category = Head(txq).oldName)
       => LET A == Head(txq).oldName
              B == Head(txq).newName
          IN /\ B \in renderCategories(store')
             /\ A \notin renderCategories(store')
             /\ DOMAIN store' = DOMAIN store
             /\ \A i \in DOMAIN store :
                   IF store[i].category = A
                   THEN store'[i].category = B
                   ELSE store'[i] = store[i]]_vars

\* C5: every empty-category record of the store is named by the marker prefix
\* followed by its category, and has empty data.
C5_SentinelNamed ==
    \A i \in DOMAIN store :
        store[i].isEmptyCategory =>
            (store[i].name = EMPTY_PREFIX \o store[i].category /\ store[i].data = "")

\* C6: when the scan of deleteCategory(A) completes: every image record whose
\* category was A is still in the store with a null or empty category and nothing
\* else changed; no empty-category record of A is left; the category list of the
\* reloaded snapshot does not contain A; every record of another category is still
\* in the store, unchanged; the scan adds no record.
C6_DeleteCategory ==
    [][TxDeleteCategory =>
        LET A == Head(txq).name IN
        /\ \A i \in DOMAIN store :
              (Image(store[i]) /\ store[i].category = A) =>
                  \E j \in DOMAIN store' :
                      /\ Falsy(store'[j].category)
                      /\ store'[j] = [store[i] EXCEPT !.category = store'[j].category]
        /\ \A j \in DOMAIN store' :
              ~(store'[j].isEmptyCategory /\ store'[j].category = A)
        /\ A \notin renderCategories(store')
        /\ \A i \in DOMAIN store :
              store[i].category # A => \E j \in DOMAIN store' : store'[j] = store[i]
        /\ Ids(store') \subseteq Ids(store)]_vars

\* C6 witness: deleteCategory("Lab") has completed: the image of Lab is in the store
\* without a category and the empty-category record of Lab is gone.
C6_Witness ==
    /\ lastToast = "categoryDeleted"
    /\ \E i \in DOMAIN store :
          Image(store[i]) /\ store[i].name = "x_DSC.jpg" /\ store[i].category = Null
    /\ \A i \in DOMAIN store : ~store[i].isEmptyCategory

\* C7: executeRename on a category with a new name that is reserved, or that is the
\* category of a record of the snapshot, issues no transaction and changes neither
\* the store, the snapshot, the filters nor the selection.
C7_RenameRejected ==
    [][\A newName \in CategoryInputs :
          (/\ executeRenameWith(newName)
           /\ renameType = "category"
           /\ newName # renameOldName
           /\ (Reserved(newName) \/ newName \in existingCategories))
          => /\ UNCHANGED <<store, nextId, allImages, txq, selectedIds>>
             /\ UNCHANGED filterVars
             /\ lastToast' \in {"reservedRename", "existsRename"}]_vars

\* C7 witness: a rename of a category has just been rejected; the rename dialog is
\* still open on that category.
C7_Witness ==
    /\ renameOpen
    /\ renameType = "category"
    /\ lastToast \in {"reservedRename", "existsRename"}

\* C8: addCategory(name) with a reserved name, or with a name that is the category
\* of a record of the snapshot, issues no transaction and leaves the store and the
\* category list as they are; with any other name it issues one add of one
\* empty-category record of that category, and that add appends exactly this one
\* record to the store.
C8_AddCategory ==
    [][/\ \A name \in CategoryInputs :
            addCategoryWith(name) =>
                IF Reserved(name) \/ name \in existingCategories
                THEN /\ UNCHANGED <<store, nextId, txq, allImages>>
                     /\ renderCategories(allImages') = renderCategories(allImages)
                ELSE /\ Len(txq') = Len(txq) + 1
                     /\ SubSeq(txq', 1, Len(txq)) = txq
                     /\ txq'[Len(txq')].kind = "add"
                     /\ txq'[Len(txq')].rec.isEmptyCategory
                     /\ txq'[Len(txq')].rec.category = name
                     /\ UNCHANGED store
       /\ (TxAdd /\ Head(txq).rec.isEmptyCategory) =>
              /\ Len(store') = Len(store) + 1
              /\ SubSeq(store', 1, Len(store)) = store
              /\ store'[Len(store')].isEmptyCategory
              /\ store'[Len(store')].category = Head(txq).rec.category]_vars

\* C8 witness: an empty-category record added in this session is in the store, and
\* a later addCategory with a reserved name has been rejected.
C8_Witness ==
    /\ lastToast = "reservedAdd"
    /\ \E i \in DOMAIN store : store[i].isEmptyCategory /\ store[i].id > Len(StoreLab)

\* C9: when the name of a saved file is the name of a record of the snapshot and
\* the user declines the overwrite, no reader and no transaction is started, the
\* store and the snapshot are unchanged, and the skip notification is emitted.
C9_DeclineKeeps ==
    [][/\ \A file \in Files :
            (/\ UploadWith(file, FALSE) \/ DropWith(file, FALSE)
             /\ Len(allImages) > 0
             /\ checkDuplicateImage(file.name))
            => /\ UNCHANGED <<store, nextId, allImages, txq, readers>>
               /\ lastToast' = "skipped"
       /\ \A i \in DOMAIN waiters :
            (WaitResolveWith(i, FALSE) /\ checkDuplicateImage(waiters[i].name))
            => /\ UNCHANGED <<store, nextId, allImages, txq, readers>>
               /\ lastToast' = "skipped"]_vars

\* C9 witness: an overwrite has been declined.
C9_Witness ==
    /\ lastToast = "skipped"
    /\ readers = <<>>
    /\ txq = <<>>
    /\ store = allImages

\* C10: the transaction of a confirmed overwrite finds a record of that name and
\* changes the first one and no other record: its data is the new data, its date is
\* the date of the overwrite, its category is the supplied category when that is
\* not empty and its former category otherwise; its name and id are kept.
C10_Overwrite ==
    [][TxUpdateExisting =>
        LET t == Head(txq)
            k == FirstByName(store, t.name)
        IN (k # 0) =>
           /\ DOMAIN store' = DOMAIN store
           /\ \A i \in DOMAIN store : i # k => store'[i] = store[i]
           /\ store'[k].data = t.data
           /\ store'[k].date = now
           /\ store'[k].category =
                 (IF Falsy(t.category) THEN store[k].category ELSE t.category)
           /\ store'[k].name = store[k].name
           /\ store'[k].id = store[k].id]_vars

\* C10 witness: x_DSC.jpg has been overwritten by a call that supplied no category:
\* new data, refreshed date, category kept.
C10_Witness ==
    /\ lastToast = "updated"
    /\ \E i \in DOMAIN store :
          /\ store[i].name = "x_DSC.jpg"
          /\ store[i].data = "d1"
          /\ store[i].date = now
          /\ store[i].category = "Lab"

\* C11: for every filter state, renderGallery shows exactly the image records of
\* the snapshot whose category matches the category filter ('all' matches all;
\* '其他' matches null, '' and '其他'; any other value matches the equal category),
\* whose tags contain every tag of the tag filter, and whose name without its
\* extension ends, in upper case, with the mode ('ALL' matches all).  A record
\* x_DSC.jpg of Lab tagged PBT is shown under (Lab, [PBT], DSC) and not under
\* (Lab, [PBT], TGA).
C11_GalleryMatchesFilters ==
    /\ \A filter \in FilterInputs, tagFilters \in TagFilterInputs, mode \in ModeInputs :
          Range(renderGallery(allImages, filter, tagFilters, mode)) =
              {img \in Range(allImages) :
                  /\ Image(img)
                  /\ \/ filter = CAT_ALL
                     \/ filter = CAT_QITA /\ img.category \in {Null, "", CAT_QITA}
                     \/ filter \notin {CAT_ALL, CAT_QITA} /\ img.category = filter
                  /\ Range(tagFilters) \subseteq Range(img.tags)
                  /\ \/ mode = "ALL"
                     \/ LET base == toUpperCase(removeFileExtension(img.name)) IN
                        /\ Len(base) >= Len(mode)
                        /\ SubSeq(base, Len(base) - Len(mode) + 1, Len(base)) = mode}
    /\ \A i \in DOMAIN allImages :
          (/\ allImages[i].name = "x_DSC.jpg"
           /\ allImages[i].category = "Lab"
           /\ allImages[i].tags = <<"PBT">>)
          => /\ allImages[i] \in Range(renderGallery(allImages, "Lab", <<"PBT">>, "DSC"))
             /\ allImages[i] \notin Range(renderGallery(allImages, "Lab", <<"PBT">>, "TGA"))

\* C11 witness: the gallery is filtered on all three dimensions at once and shows
\* one record of the loaded snapshot, x_DSC.jpg.
C11_Witness ==
    /\ currentFilter = "Lab"
    /\ currentTagFilters = <<"PBT">>
    /\ currentModeFilter = "DSC"
    /\ Len(Visible) = 1
    /\ Visible[1].name = "x_DSC.jpg"
    /\ Len(allImages) > 1

\* C12: for every filter state, none of the lists computed by renderGallery,
\* selectAllVisible, updateUI and toggleSelectAll holds an empty-category record,
\* and neither select-all operation adds the id of one to the selection.
C12_NoSentinelVisible ==
    /\ [](\A filter \in FilterInputs, tagFilters \in TagFilterInputs, mode \in ModeInputs :
            \A img \in Range(renderGallery(allImages, filter, tagFilters, mode))
                       \cup Range(selectAllVisibleSet(allImages, filter, tagFilters, mode))
                       \cup Range(updateUISet(allImages, filter, tagFilters, mode))
                       \cup Range(toggleSelectAllSet(allImages, filter, tagFilters, mode)) :
                Image(img))
    /\ [][(selectAllVisible \/ toggleSelectAll)
            => (selectedIds' \ selectedIds) \cap Ids(Sentinels(allImages)) = {}]_vars

\* C12 witness: a select-all has selected every image of a snapshot that holds an
\* empty-category record.
C12_Witness ==
    /\ Sentinels(allImages) # <<>>
    /\ selectedIds = Ids(RealRecords(allImages))
    /\ selectedIds # {}

\* C13: selectAllVisible leaves every visible record selected, a second call
\* would change nothing, and what was selected before stays selected.
C13_SelectAllVisible ==
    [][selectAllVisible =>
        /\ LET visible == Ids(renderGallery(allImages', currentFilter',
                                            currentTagFilters', currentModeFilter'))
           IN visible \cap selectedIds' = visible
        /\ SelectedAfterSelectAll(allImages', currentFilter', currentTagFilters',
                                  currentModeFilter', selectedIds') = selectedIds'
        /\ selectedIds \subseteq selectedIds'
        /\ selectedIds' \subseteq selectedIds \cup Ids(Visible)]_vars

\* C13 witness: every visible record is selected, together with a record the
\* filters hide.
C13_Witness ==
    /\ Ids(Visible) # {}
    /\ Ids(Visible) \subseteq selectedIds
    /\ selectedIds \ Ids(Visible) # {}

C15_RoundTrip ==
    (exported # NoExport /\ imp = Idle /\ InFlight = 0) =>
        \A i \in DOMAIN exported.images :
            \E j \in DOMAIN store :
                /\ store[j].name = exported.images[i].name
                /\ \/ store[j].category = exported.images[i].category
                   \/ Falsy(store[j].category) /\ Falsy(exported.images[i].category)
                /\ store[j].tags = exported.images[i].tags

\* C16: a step that closes the confirm dialog (cancel, the close button, or the
\* completion of the confirmed action) leaves confirmAction and confirmParams null,
\* and the transaction a confirmation issues is the one its dialog asked about:
\* deleteSelectedImages exactly when the dialog was opened by deleteSelected.
C16_ConfirmDiscarded ==
    [][/\ (confirmOpen /\ ~confirmOpen') => (confirmAction' = Null /\ confirmParams' = NoParams)
       /\ (executeConfirmAction /\ Len(txq') > Len(txq)) =>
              LET t == txq'[Len(txq')] IN (t.kind = "deleteSelected") <=> (t.asked = Null)
      ]_vars

\* C17: for every name a file can have, checkDuplicateImage and the existence check
\* of the import are true exactly when an image record (not an empty-category
\* record) of the snapshot has that name, and an overwrite never changes an
\* empty-category record of the store.
C17_DuplicateCheck ==
    /\ [](\A file \in NamedFiles :
            LET named == \E i \in DOMAIN allImages :
                            Image(allImages[i]) /\ allImages[i].name = file.name
            IN /\ checkDuplicateImage(file.name) <=> named
               /\ existingImage(file.name) <=> named)
    /\ [][TxUpdateExisting => Sentinels(store') = Sentinels(store)]_vars

\* C18: an image record without a category is displayed under no category filter
\* other than '其他', and a save of the detail dialog that was opened on such a
\* record and whose category select was not changed leaves the category of the
\* record in the store null or empty.
C18_UncategorizedKept ==
    /\ [](\A filter \in FilterInputs \ {CAT_ALL, CAT_QITA} :
            \A img \in Range(renderGallery(allImages, filter, <<>>, "ALL")) :
                ~Falsy(img.category))
    /\ [][(/\ txq # <<>>
           /\ Head(txq).kind = "put"
           /\ Falsy(Head(txq).was)
           /\ ~Head(txq).touched)
          => \A j \in DOMAIN store' :
                 store'[j].id = Head(txq).rec.id => Falsy(store'[j].category)]_vars

\* C19: every image record an import has added to the store has the category of
\* an archive entry of its file name: the first segment of the path when the
\* entry is in a folder, and an empty category when its path has no '/'.
C19_EntryCategory ==
    \A j \in DOMAIN store :
        (store[j].id > Len(StoreLab) /\ Image(store[j])) =>
            \E zip \in Archives :
                \E k \in DOMAIN zip.entries :
                    LET filename == zip.entries[k].path IN
                    /\ EntryFilename(filename) = store[j].name
                    /\ IF Positions(filename, "/") = {}
                       THEN Falsy(store[j].category)
                       ELSE store[j].category = EntryCategory(filename)

\* C20: with the overwrite box unticked an import neither inserts a record for a
\* file name an image record already has, whether that record was in the store
\* before the import or was inserted by it, nor modifies a record: the records of
\* the initial store stay as they were and no two image records share a name.
C20_CollisionSkipped ==
    /\ \A i \in DOMAIN StoreLab : i \in DOMAIN store /\ store[i] = StoreLab[i]
    /\ \A i, j \in DOMAIN store :
           (i < j /\ Image(store[i]) /\ Image(store[j])) => store[i].name # store[j].name

\* C21: the transaction that assigns the tags tags.json lists for a file name runs
\* when the record of that file is in the store: once it has run, an image record
\* of that name carries the listed tags.
C21_TagsAfterCommit ==
    [][TxUpdateTagsByName =>
          \E j \in DOMAIN store' :
              /\ Image(store'[j])
              /\ store'[j].name = Head(txq).name
              /\ store'[j].tags = Head(txq).tags]_vars

\* C22: the category list of every snapshot holds '其他' exactly once, holds
\* neither 'all' nor '全部', holds every non-empty category of a record of the
\* snapshot, and is in ascending order with '其他' as its last entry.
C22_CategoryList ==
    LET list == renderCategoriesSorted(allImages) IN
    /\ Cardinality({i \in DOMAIN list : list[i] = CAT_QITA}) = 1
    /\ CAT_ALL \notin Range(list) /\ CAT_QUANBU \notin Range(list)
    /\ \A i \in DOMAIN allImages :
           ~Falsy(allImages[i].category) => allImages[i].category \in Range(list)
    /\ list[Len(list)] = CAT_QITA
    /\ \A i, j \in DOMAIN list :
           i < j => CodeLess(CodeUnits(list[i]), CodeUnits(list[j]))

\* C23: the scan of renameTagNew(old, new) puts new where old was in the tags of
\* every record and the scan of deleteTagNew(name) takes name out of the tags of
\* every record; both leave the records, their order and every field but tags as
\* they were, leave the other tags in their order, and leave no record carrying
\* the old or the deleted tag.
C23_TagCascade ==
    [][/\ TxRenameTag =>
            LET t == Head(txq) IN
            /\ DOMAIN store' = DOMAIN store
            /\ \A i \in DOMAIN store :
                  /\ [store'[i] EXCEPT !.tags = <<>>] = [store[i] EXCEPT !.tags = <<>>]
                  /\ Len(store'[i].tags) = Len(store[i].tags)
                  /\ \A k \in DOMAIN store[i].tags :
                        store'[i].tags[k] = IF store[i].tags[k] = t.oldName
                                            THEN t.newName ELSE store[i].tags[k]
                  /\ t.oldName \notin Range(store'[i].tags)
       /\ TxDeleteTag =>
            LET name == Head(txq).name IN
            /\ DOMAIN store' = DOMAIN store
            /\ \A i \in DOMAIN store :
                  /\ [store'[i] EXCEPT !.tags = <<>>] = [store[i] EXCEPT !.tags = <<>>]
                  /\ store'[i].tags = SelectSeq(store[i].tags, LAMBDA tag : tag # name)
                  /\ name \notin Range(store'[i].tags)
      ]_vars

\* a tag was renamed in a record that carries other tags on both sides of it, and
\* the reload has shown it
C23_Witness ==
    /\ lastToast = "renamed"
    /\ \E i \in DOMAIN allImages : allImages[i].tags = <<"ABS", "PET", "PA">>

\* C24: saveDetail creates one put transaction, and when that transaction runs
\* the store keeps its records, every other record is as it was immediately
\* before, and the record put differs from what the store held immediately before
\* in its category and tags at most.
C24_PutFrame ==
    [][/\ saveDetail =>
            /\ Len(txq') = Len(txq) + 1
            /\ txq'[Len(txq')].kind = "put"
       /\ TxPut =>
            /\ DOMAIN store' = DOMAIN store
            /\ \A j \in DOMAIN store :
                  IF store[j].id = Head(txq).rec.id
                  THEN store'[j] = [store[j] EXCEPT !.category = store'[j].category,
                                                    !.tags = store'[j].tags]
                  ELSE store'[j] = store[j]
      ]_vars

\* C25: when the put of saveDetail fails nothing is rolled back and nothing else
\* happens but the notification: the image of the snapshot keeps what the dialog
\* edited, the store keeps what it held, the failure toast is shown and the detail
\* dialog stays as it was (a save always leaves the category of the select in the
\* image of the snapshot).
C25_PutFailure ==
    [][/\ TxPutError =>
            /\ allImages' = allImages
            /\ store' = store
            /\ lastToast' = "saveFailed"
            /\ currentDetailId' = currentDetailId
       /\ saveDetail =>
            \E k \in DOMAIN allImages' :
                /\ allImages'[k].id = currentDetailId
                /\ allImages'[k].category = detailCategory
                /\ txq'[Len(txq')].rec = allImages'[k]
      ]_vars

\* a put has failed with the dialog still open on an image whose category and
\* tags in the snapshot are the edited ones and differ from those in the store
C25_Witness ==
    /\ lastToast = "saveFailed"
    /\ currentDetailId # NoId
    /\ txq = <<>>
    /\ \E k \in DOMAIN allImages, j \in DOMAIN store :
          /\ allImages[k].id = currentDetailId /\ store[j].id = currentDetailId
          /\ allImages[k].category = detailCategory
          /\ allImages[k].category # store[j].category
          /\ allImages[k].tags # store[j].tags

\* C26: clearSelection() leaves the selection empty, whatever was selected and
\* whatever the filters display, and changes no filter, no record of the snapshot
\* and no record of the store.
C26_ClearSelection ==
    [][clearSelection =>
          /\ selectedIds' = {}
          /\ UNCHANGED <<currentFilter, currentTagFilters, currentModeFilter,
                         allImages, store>>]_vars

\* displayed and hidden images are selected and clearSelection can be called
C26_Witness ==
    /\ PageEnabled
    /\ selectedIds \cap Ids(Visible) # {}
    /\ selectedIds \ Ids(Visible) # {}
    /\ currentTagFilters # <<>>

\* C27: filterCategory, toggleTag and toggleModeFilter leave the selection as it
\* was, and the select-all button reads "deselect all" exactly when some image
\* is displayed and every displayed image is selected.
C27_FiltersKeepSelection ==
    /\ [][(filterCategory \/ toggleTag \/ toggleModeFilter)
             => selectedIds' = selectedIds]_vars
    /\ [](AllVisibleSelected(allImages, currentFilter, currentTagFilters,
                             currentModeFilter, selectedIds)
            <=> (Ids(Visible) # {} /\ Ids(Visible) \subseteq selectedIds))

\* every displayed image is selected, the button reads "deselect all", and
\* selected images are hidden by the mode filter
C27_Witness ==
    /\ currentModeFilter = "DSC"
    /\ Ids(Visible) # {}
    /\ Ids(Visible) \subseteq selectedIds
    /\ Cardinality(selectedIds \ Ids(Visible)) >= 2

\* C29: for every state of the three filters toggleSelectAll computes the list
\* renderGallery displays and updateUI counts, and a call of it selects every
\* displayed image when some are displayed and not all of them are selected, and
\* leaves no displayed image selected when all of them were.
C29_ToggleAllVisible ==
    /\ [](\A filter \in FilterInputs, tagFilters \in TagFilterInputs, mode \in ModeInputs :
            /\ toggleSelectAllSet(allImages, filter, tagFilters, mode)
                  = renderGallery(allImages, filter, tagFilters, mode)
            /\ toggleSelectAllSet(allImages, filter, tagFilters, mode)
                  = updateUISet(allImages, filter, tagFilters, mode))
    /\ [][toggleSelectAll =>
            IF Ids(Visible) \subseteq selectedIds
            THEN Ids(Visible) \cap selectedIds' = {}
            ELSE Ids(Visible) \subseteq selectedIds']_vars

\* C28: when reading an entry throws during an import, the store and the saves
\* already under way are left as they are, the import ends there (none of the
\* remaining entries is ever saved), the failure toast is shown and the import
\* dialog is closed.
C28_ImportThrows ==
    [][ImportThrow =>
          /\ store' = store
          /\ UNCHANGED <<waiters, readers, txq>>
          /\ imp' = Idle
          /\ lastToast' = "importFailed"
          /\ ~importOpen']_vars

\* an import has failed at its second entry: the record of the first is in the
\* store, nothing is under way, the dialog is closed
C28_Witness ==
    /\ lastToast = "importFailed"
    /\ imp = Idle /\ InFlight = 0 /\ ~importOpen
    /\ Len(store) = Len(StoreLab) + 1
    /\ store[Len(store)].name = "y.png" /\ store[Len(store)].category = "Lab"

\* C30: an overwrite of an existing image by name (upload, drop or import) leaves
\* the id, the name and the tags of every record as they were.
C30_OverwriteKeepsTags ==
    [][TxUpdateExisting =>
          /\ Len(store') = Len(store)
          /\ \A i \in DOMAIN store :
                /\ store'[i].id = store[i].id
                /\ store'[i].name = store[i].name
                /\ store'[i].tags = store[i].tags]_vars

\* C31: every entry of the sidebar category list is a non-empty string: neither
\* null nor '' is an entry, also after deleteCategory has set the category of
\* images to null.
C31_EntriesNonEmpty ==
    \A cat \in renderCategories(allImages) : cat # Null /\ cat # ""

\* C32: whenever no transaction, read or wait is pending and the detail dialog
\* is closed, the snapshot equals the store, record for record and field for
\* field.
C32_SnapshotIsStore ==
    (InFlight = 0 /\ currentDetailId = NoId) => allImages = store

\* C33: the category filter is always 'all', '其他' or an entry of the category
\* list, and every tag of the tag filter is carried by some record of the
\* snapshot.
C33_FiltersListed ==
    /\ currentFilter \in {CAT_ALL, CAT_QITA} \cup renderCategories(allImages)
    /\ \A tag \in Range(currentTagFilters) : tag \in renderTagsListNew(allImages)

\* C34: no record, in the store or in the snapshot, carries the same tag twice.
C34_NoDuplicateTags ==
    /\ \A i \in DOMAIN store :
          \A a, b \in DOMAIN store[i].tags :
              store[i].tags[a] = store[i].tags[b] => a = b
    /\ \A i \in DOMAIN allImages :
          \A a, b \in DOMAIN allImages[i].tags :
              allImages[i].tags[a] = allImages[i].tags[b] => a = b

\* C35: the store never holds two empty-category records of the same category,
\* also when addCategory is called twice with the same name before the first
\* record is committed and the snapshot reloaded.
C35_OneSentinelPerCategory ==
    \A i, j \in DOMAIN store :
        (/\ store[i].isEmptyCategory /\ store[j].isEmptyCategory
         /\ store[i].category = store[j].category) => i = j

\* C36: deleteSelectedImages takes the ids that are selected when the deletion
\* is confirmed; its scan removes from the store exactly the records with those
\* ids, shown or hidden by the filter, leaves every other record as it is, and
\* when it completes the selection is empty.
C36_DeleteSelected ==
    [][/\ (executeConfirmAction /\ ConfirmedAction = "deleteSelectedImages"
              /\ selectedIds # {})
          => (/\ Len(txq') = Len(txq) + 1
              /\ txq'[Len(txq')].kind = "deleteSelected"
              /\ txq'[Len(txq')].ids = selectedIds)
       /\ TxDeleteSelected
          => (/\ store' = SelectSeq(store, LAMBDA v : v.id \notin Head(txq).ids)
              /\ \A i \in DOMAIN store' : store'[i].id \notin Head(txq).ids
              /\ selectedIds' = {})]_vars

\* a deletion has completed that removed a selected image the category filter
\* was hiding, and kept the others
C36_Witness ==
    /\ lastToast = "deleted" /\ selectedIds = {}
    /\ currentFilter = "Lab"
    /\ \E i \in DOMAIN allImages : allImages[i].category = "Out"
    /\ ~\E i \in DOMAIN store : store[i].category = "Out"
    /\ \E i \in DOMAIN store : ~store[i].isEmptyCategory

\* C37: the tag assignments collected from tags.json do not outlive their
\* import: when no import is running, also after one that ended with an error,
\* window.pendingTagUpdates holds nothing a later import could apply.
C37_PendingDiscarded ==
    /\ imp = Idle => pendingTagUpdates = <<>>
    /\ \A k \in DOMAIN txq :
          txq[k].kind = "updateTagsByName" =>
              /\ imp # Idle
              /\ \E i \in DOMAIN imp.tagsInfo :
                    /\ imp.tagsInfo[i].name = txq[k].name
                    /\ imp.tagsInfo[i].tags = txq[k].tags

\* C38: whenever no transaction, read or wait is pending, every selected id is
\* the id of an image (not an empty-category record) of the snapshot; no id of
\* a deleted record stays or becomes selected.
C38_SelectionInSnapshot ==
    InFlight = 0 =>
        \A id \in selectedIds :
            \E i \in DOMAIN allImages :
                allImages[i].id = id /\ ~allImages[i].isEmptyCategory

\* C39: every save confirmed as an overwrite eventually completes: once the
\* file of the overwrite is being read, a state follows in which the store holds
\* a record of that name with the new data and the success toast is shown.
C39_OverwriteCompletes ==
    (\E i \in DOMAIN readers : readers[i].op = "update" /\ readers[i].name = "x_DSC.jpg")
        ~> (/\ \E j \in DOMAIN store :
                  store[j].name = "x_DSC.jpg" /\ store[j].data = "d1"
            /\ lastToast = "updated")

=============================================================================
